---- MODULE Spec2Model ----
(***************************************************************************)
(* Broadcaster: the channel broadcast engine.                              *)
(*                                                                         *)
(* The model covers the channel pool (Broadcaster.js, ChannelPool.js,      *)
(* Channel), the pre-generation scheduler and its transcoder processes     *)
(* (PreGenerator.js), the segment bundle store on disk, and the live       *)
(* playlist synthesizer (PlaylistManager.js).                              *)
(*                                                                         *)
(* Units.  Every duration, offset and wall-clock value is an integer       *)
(* number of microseconds: segment durations are written by the transcoder *)
(* with six decimals, Date.now() has millisecond resolution, and the       *)
(* arithmetic of the synthesizer (%, floor, ceil, comparisons) is exact on *)
(* such values.  Floating-point rounding is outside the model.             *)
(*                                                                         *)
(* Text.  A playlist (bundle index or live manifest) is a sequence of      *)
(* lines; a line is a record [tag, num, uri], num being the tuple of the    *)
(* numbers the line carries (a decimal is <<integer part, six decimals>>). *)
(***************************************************************************)
EXTENDS Integers, Sequences, FiniteSets, Bags, TLC

\* ------------------------------------------------------------------------
\* Bounds of the model
\* ------------------------------------------------------------------------

\* Number of segments of the long source file (more than windowBehind + 1).
LongLen == 33
\* Offsets handed to the synthesizer: 0, OffsetStep, ..., MaxOffsetSteps * OffsetStep.
MaxOffsetSteps == 9
\* Wall-clock ticks of the system model.
MaxTicks == 3
\* Edits of the channel definitions file.
MaxEdits == 1
\* Calls of the synthesizer one whole loop after the last one.
MaxLoops == 2
\* Seconds the wall clock can be set back below its value at boot.
MaxBack == 1
\* Calls of the guide on its grid of instants.
MaxGuideSteps == 32
\* Entries of a schedule handed to the merge pass alone.
MaxEntries == 4

\* ------------------------------------------------------------------------
\* Units and small helpers
\* ------------------------------------------------------------------------

Second == 1000 * 1000
Milli == Second \div 1000

Max(a, b) == IF a >= b THEN a ELSE b
Min(a, b) == IF a <= b THEN a ELSE b

\* Math.ceil(x / d) for d > 0
CeilDiv(x, d) == -((-x) \div d)

\* JavaScript's a % b for b > 0: the result has the sign of the dividend.
JsMod(a, b) == IF a >= 0 THEN a % b ELSE -((-a) % b)

\* Math.floor(a / b) for b > 0
JsFloorDiv(a, b) == a \div b

\* Math.max(...values, lo)
SetMax(S, lo) == IF S = {} THEN lo ELSE Max(lo, CHOOSE m \in S : \A x \in S : x <= m)

Range(s) == {s[i] : i \in 1..Len(s)}

Line(t, n, u) == [tag |-> t, num |-> n, uri |-> u]

\* ------------------------------------------------------------------------
\* The media library (the file system below the channels' root paths) and
\* what the transcoder produces for each source file.
\* ------------------------------------------------------------------------

Roots == {"/a", "/b", "/docs", "/s2", "/s4", "/long", "/showa", "/showb", "/showd"}

\* fs.readdirSync / fs.statSync walk of a root: the regular files below it.
DirListing(dir) ==
    CASE dir = "/a"    -> <<"/a/1.mp4">>
      [] dir = "/b"    -> <<"/b/1.mp4", "/b/2.mkv">>
      [] dir = "/docs" -> <<"/docs/readme.txt">>
      [] dir = "/s2"   -> <<"/s2/x.mp4">>
      [] dir = "/s4"   -> <<"/s4/1.mp4", "/s4/2.mp4">>
      [] dir = "/long" -> <<"/long/x.mp4">>
      [] dir = "/showa" -> <<"/showa/1.mp4", "/showa/2.mp4">>
      [] dir = "/showb" -> <<"/showb/1.mp4">>
      [] dir = "/showd" -> <<"/showd/1.mp4", "/showd/2.mp4", "/showd/3.mp4">>
      [] OTHER         -> <<>>

DirExists(dir) == dir \in Roots

\* Segment durations (microseconds) the transcoder produces for a source file.
FfmpegOutput(file) ==
    CASE file = "/a/1.mp4"    -> <<2 * Second>>
      [] file = "/b/1.mp4"    -> <<2 * Second, 2 * Second>>
      [] file = "/b/2.mkv"    -> <<2 * Second + 500 * Milli>>
      [] file = "/s2/x.mp4"   -> <<6 * Second, 6 * Second, 4 * Second + 500 * Milli>>
      [] file = "/s4/1.mp4"   -> <<2 * Second, 2 * Second>>
      [] file = "/s4/2.mp4"   -> <<2 * Second, 2 * Second>>
      [] file = "/long/x.mp4" -> [i \in 1..LongLen |-> 1 * Second]
      [] file \in {"/showa/1.mp4", "/showa/2.mp4", "/showd/2.mp4", "/showd/3.mp4"}
                              -> <<300 * Second>>
      [] file \in {"/showb/1.mp4", "/showd/1.mp4"}
                              -> <<600 * Second, 600 * Second>>
      [] OTHER                -> <<1 * Second>>

\* ------------------------------------------------------------------------
\* Segment bundle store
\* ------------------------------------------------------------------------

\* crypto md5 of the path, hex: an injective fingerprint of the path string.
getVideoHash(filePath) == <<"md5", filePath>>

\* "%f" rendering of a duration / toFixed(6): integer part and six decimals.
toFixed6(d) == <<d \div Second, d % Second>>

\* parseFloat of the text matched by /#EXTINF:([\d.]+)/, 0 when no match.
parseSegmentDuration(line) ==
    IF line.tag = "#EXTINF" /\ Len(line.num) = 2
    THEN line.num[1] * Second + line.num[2] ELSE 0

\* The index.m3u8 the transcoder has on disk after writing the first k
\* segments of a source file; finished adds the end-of-list marker.
IndexContent(file, k, finished) ==
    LET durs == FfmpegOutput(file)
    IN  << Line("#EXTM3U", <<>>, <<>>) >>
        \o [j \in 1..(2 * k) |->
               IF j % 2 = 1 THEN Line("#EXTINF", toFixed6(durs[(j + 1) \div 2]), <<>>)
               ELSE Line("SEGMENT", <<(j \div 2) - 1>>, <<>>)]
        \o (IF finished THEN << Line("#EXT-X-ENDLIST", <<>>, <<>>) >> ELSE <<>>)

\* A bundle directory: whether it exists, whether it holds index.m3u8 and
\* the lines of it, the numbers of the segment_NNNNN.ts files it holds,
\* whether it holds metadata.json and the record in it (generatedAt and
\* duration, which are written and never read, are left out).
NoMetadata == [originalPath |-> "", videoHash |-> <<"md5", "">>]

NoDir == [exists |-> FALSE, hasIndex |-> FALSE, index |-> <<>>, files |-> {},
          hasMetadata |-> FALSE, metadata |-> NoMetadata]

EmptyDir == [NoDir EXCEPT !.exists = TRUE]

Metadata(file) == [originalPath |-> file, videoHash |-> getVideoHash(file)]

CompleteDir(file) ==
    [exists |-> TRUE, hasIndex |-> TRUE,
     index |-> IndexContent(file, Len(FfmpegOutput(file)), TRUE),
     files |-> 0..(Len(FfmpegOutput(file)) - 1),
     hasMetadata |-> TRUE, metadata |-> Metadata(file)]

PartialDir(file, k) ==
    [exists |-> TRUE, hasIndex |-> TRUE, index |-> IndexContent(file, k, FALSE),
     files |-> 0..(k - 1), hasMetadata |-> FALSE, metadata |-> NoMetadata]

HasEndlist(index) == \E i \in 1..Len(index) : index[i].tag = "#EXT-X-ENDLIST"

\* The bundle of (slug, file) on a disk d (a function on bundle keys).
Bundle(d, slug, file) ==
    IF <<slug, getVideoHash(file)>> \in DOMAIN d THEN d[<<slug, getVideoHash(file)>>] ELSE NoDir

\* The data model's completeness: index present with the end-of-list marker,
\* at least one segment listed, every listed segment present, metadata present.
IsComplete(b) ==
    /\ b.exists
    /\ b.hasIndex
    /\ HasEndlist(b.index)
    /\ \E i \in 1..Len(b.index) : b.index[i].tag = "SEGMENT"
    /\ \A i \in 1..Len(b.index) : b.index[i].tag = "SEGMENT" => b.index[i].num[1] \in b.files
    /\ b.hasMetadata

\* ------------------------------------------------------------------------
\* PlaylistManager: the compiled program
\* ------------------------------------------------------------------------

\* The for-loop over the lines of one index (bundle at queue position
\* index, 0-based), continuing acc = [segments, totalDuration]: every
\* #EXTINF line adds its duration to the running total; when the next line
\* names a segment file, a segment record with that total as its timestamp
\* is pushed.
ParseIndex(lines, slug, videoHash, index, acc) ==
    LET n == Len(lines)
        isInf(i) == lines[i].tag = "#EXTINF"
        durationAt(i) == parseSegmentDuration(lines[i])
        timed(k) == {i \in 1..k : isInf(i) /\ durationAt(i) > 0}
        totalAt(k) == acc.totalDuration + BagCardinality([i \in timed(k) |-> durationAt(i)])
        hasFile(i) == isInf(i) /\ i + 1 <= n /\ lines[i + 1].tag = "SEGMENT"
        pushed == SelectSeq([i \in 1..n |-> i], hasFile)
        seg(i) == [duration |-> durationAt(i),
                   path |-> <<slug, videoHash, lines[i + 1].num[1]>>,
                   videoIndex |-> index,
                   timestamp |-> totalAt(i)]
    IN  [segments |-> acc.segments \o [m \in 1..Len(pushed) |-> seg(pushed[m])],
         totalDuration |-> totalAt(n)]

\* queue.forEach of generateMasterPlaylist from queue position q on.
RECURSIVE MasterFrom(_, _, _, _)
MasterFrom(channel, d, q, acc) ==
    IF q > Len(channel.queue) THEN acc
    ELSE LET filePath == channel.queue[q]
             b == Bundle(d, channel.slug, filePath)
         IN  IF \/ ~b.hasIndex
                \/ ~b.hasMetadata
                \/ ~HasEndlist(b.index)
             THEN MasterFrom(channel, d, q + 1, acc)
             ELSE MasterFrom(channel, d, q + 1,
                             ParseIndex(b.index, channel.slug, getVideoHash(filePath),
                                        q - 1, acc))

\* The Compiled Program of a channel: the sequence of segment records.
generateMasterPlaylist(channel, d) ==
    MasterFrom(channel, d, 1, [segments |-> <<>>, totalDuration |-> 0]).segments

\* ------------------------------------------------------------------------
\* PlaylistManager: the live-playlist synthesizer
\* ------------------------------------------------------------------------

windowBehind == 30
windowAhead == 2000
bufferAhead == 18

\* Variant of EmptyPlaylist: the text without the end-of-list line.
EmptyPlaylistOpen ==
    << << Line("#EXTM3U", <<>>, <<>>),
          Line("#EXT-X-VERSION", <<3>>, <<>>) >> >>

EmptyPlaylist ==
    << << Line("#EXTM3U", <<>>, <<>>),
          Line("#EXT-X-VERSION", <<3>>, <<>>),
          Line("#EXT-X-ENDLIST", <<>>, <<>>) >> >>

\* const totalDuration = allSegments[allSegments.length - 1].timestamp
TotalDuration(allSegments) == allSegments[Len(allSegments)].timestamp

\* Variant of CurrentIndex: the scan stops at a timestamp equal to the offset.
CurrentIndexAtOrAfter(allSegments, normalizedOffset) ==
    LET hits == {i \in 1..Len(allSegments) : allSegments[i].timestamp >= normalizedOffset}
    IN  IF hits = {} THEN 0
        ELSE (CHOOSE i \in hits : \A j \in hits : i <= j) - 1

\* The scan for the current position: the first i with timestamp > offset,
\* 0 when there is none.  (0-based, as in the source.)
CurrentIndex(allSegments, normalizedOffset) ==
    LET hits == {i \in 1..Len(allSegments) : allSegments[i].timestamp > normalizedOffset}
    IN  IF hits = {} THEN 0
        ELSE (CHOOSE i \in hits : \A j \in hits : i <= j) - 1

\* Variant of SegmentsInWindow: the loop stops at the end of the program
\* instead of wrapping.
SegmentsInWindowNoWrap(allSegments, currentIndex) ==
    LET totalSegments == Len(allSegments)
        first == Max(-windowBehind, -currentIndex)
    IN  [j \in 1..Min(windowAhead - first, totalSegments - (currentIndex + first)) |->
            allSegments[currentIndex + first + j]]

\* Segments gathered by the loop i = -windowBehind .. windowAhead - 1:
\* idx = currentIndex + i, skipped when negative, wrapped modulo the
\* number of segments when past the end.
SegmentsInWindow(allSegments, currentIndex) ==
    LET totalSegments == Len(allSegments)
        first == Max(-windowBehind, -currentIndex)
    IN  [j \in 1..(windowAhead - first) |->
            LET idx == currentIndex + first + (j - 1)
            IN  allSegments[(IF idx >= totalSegments THEN idx % totalSegments ELSE idx) + 1]]

\* Variants of MediaSequence: without the loop term, and with the loop
\* count not multiplied by the number of segments.
MediaSequenceNoLoop(allSegments, offsetSeconds, currentIndex) ==
    Max(0, currentIndex - windowBehind)

MediaSequencePerLoop(allSegments, offsetSeconds, currentIndex) ==
    JsFloorDiv(offsetSeconds, TotalDuration(allSegments)) + Max(0, currentIndex - windowBehind)

\* loopCount * totalSegments + Math.max(0, currentIndex - windowBehind)
MediaSequence(allSegments, offsetSeconds, currentIndex) ==
    LET loopCount == JsFloorDiv(offsetSeconds, TotalDuration(allSegments))
    IN  loopCount * Len(allSegments) + Max(0, currentIndex - windowBehind)

\* Variant of MaxDuration: the maximum rounded down.
MaxDurationFloor(segmentsInWindow) ==
    SetMax({segmentsInWindow[j].duration : j \in 1..Len(segmentsInWindow)},
           2 * Second) \div Second

\* Math.ceil(Math.max(...segmentsInWindow.map(s => s.duration), 2))
MaxDuration(segmentsInWindow) ==
    CeilDiv(SetMax({segmentsInWindow[j].duration : j \in 1..Len(segmentsInWindow)},
                   2 * Second),
            Second)

\* Variant of PlaylistHeader: a header that declares a playlist type.
PlaylistHeaderTyped(maxDuration, mediaSequence) ==
    << Line("#EXTM3U", <<>>, <<>>),
       Line("#EXT-X-VERSION", <<3>>, <<>>),
       Line("#EXT-X-TARGETDURATION", <<maxDuration>>, <<>>),
       Line("#EXT-X-MEDIA-SEQUENCE", <<mediaSequence>>, <<>>),
       Line("#EXT-X-PLAYLIST-TYPE", <<>>, <<>>) >>

PlaylistHeader(maxDuration, mediaSequence) ==
    << Line("#EXTM3U", <<>>, <<>>),
       Line("#EXT-X-VERSION", <<3>>, <<>>),
       Line("#EXT-X-TARGETDURATION", <<maxDuration>>, <<>>),
       Line("#EXT-X-MEDIA-SEQUENCE", <<mediaSequence>>, <<>>) >>

\* Variant of SegmentChunk: the tag only where the video index grows (not
\* at the wrap from the last source to the first).
SegmentChunkForward(segmentsInWindow, j) ==
    (IF j > 1 /\ segmentsInWindow[j].videoIndex > segmentsInWindow[j - 1].videoIndex
     THEN << Line("#EXT-X-DISCONTINUITY", <<>>, <<>>) >> ELSE <<>>)
    \o << Line("#EXTINF", toFixed6(segmentsInWindow[j].duration), <<>>),
          Line("URI", <<>>, segmentsInWindow[j].path) >>

\* What one iteration of segmentsInWindow.forEach appends to the playlist.
SegmentChunk(segmentsInWindow, j) ==
    (IF j > 1 /\ segmentsInWindow[j].videoIndex # segmentsInWindow[j - 1].videoIndex
     THEN << Line("#EXT-X-DISCONTINUITY", <<>>, <<>>) >> ELSE <<>>)
    \o << Line("#EXTINF", toFixed6(segmentsInWindow[j].duration), <<>>),
          Line("URI", <<>>, segmentsInWindow[j].path) >>

\* The playlist text, as the sequence of the strings appended to it: the
\* header, then one chunk per segment of the window.
PlaylistText(segmentsInWindow, mediaSequence) ==
    [c \in 1..(Len(segmentsInWindow) + 1) |->
        IF c = 1 THEN PlaylistHeader(MaxDuration(segmentsInWindow), mediaSequence)
        ELSE SegmentChunk(segmentsInWindow, c - 1)]

\* createRollingPlaylist, the revision with windowBehind / windowAhead.
RollingPlaylist(allSegments, offsetSeconds) ==
    IF Len(allSegments) = 0 THEN EmptyPlaylist
    ELSE LET normalizedOffset == JsMod(offsetSeconds, TotalDuration(allSegments))
             currentIndex == CurrentIndex(allSegments, normalizedOffset)
         IN  PlaylistText(SegmentsInWindow(allSegments, currentIndex),
                          MediaSequence(allSegments, offsetSeconds, currentIndex))

createRollingPlaylist(channel, d, offsetSeconds) ==
    RollingPlaylist(generateMasterPlaylist(channel, d), offsetSeconds)

\* The "aired content" revision: segments from the start of the loop up to
\* the current position plus bufferAhead, sequence = loopCount * totalSegments.
SegmentsAired(allSegments, currentIndex) ==
    LET endIndex == Min(currentIndex + bufferAhead, Len(allSegments))
    IN  [j \in 1..endIndex |-> allSegments[j]]

MediaSequenceAired(allSegments, offsetSeconds) ==
    JsFloorDiv(offsetSeconds, TotalDuration(allSegments)) * Len(allSegments)

RollingPlaylistAired(allSegments, offsetSeconds) ==
    IF Len(allSegments) = 0 THEN EmptyPlaylist
    ELSE LET normalizedOffset == JsMod(offsetSeconds, TotalDuration(allSegments))
             currentIndex == CurrentIndex(allSegments, normalizedOffset)
         IN  PlaylistText(SegmentsAired(allSegments, currentIndex),
                          MediaSequenceAired(allSegments, offsetSeconds))

createRollingPlaylistAired(channel, d, offsetSeconds) ==
    RollingPlaylistAired(generateMasterPlaylist(channel, d), offsetSeconds)

\* Readers of a playlist text
IsLive(m) == Len(m[1]) = 4
SequenceOf(m) == m[1][4].num[1]
TargetDurationOf(m) == m[1][3].num[1]
BodyOf(m) == SubSeq(m, 2, Len(m))

\* ------------------------------------------------------------------------
\* PlaylistManager: the program guide
\* ------------------------------------------------------------------------

\* The guide computes with Date.now(): instants are milliseconds, counted
\* here from a local midnight; durations (seconds in the source) are kept
\* in milliseconds as well.
Hour == 60 * 60 * 1000
Day == 24 * Hour

\* seconds * 1000 of a duration of the compiled program
ToMs(d) == d \div Milli

\* getPrevious3am / getNext3am at instant t (local time, days of 24 hours)
getPrevious3am(t) ==
    LET today3am == (t \div Day) * Day + 3 * Hour
    IN  IF (t % Day) \div Hour < 3 THEN today3am - Day ELSE today3am

getNext3am(t) ==
    LET today3am == (t \div Day) * Day + 3 * Hour
    IN  IF (t % Day) \div Hour >= 3 THEN today3am + Day ELSE today3am

\* path.basename of a configured path
Basename(dir) ==
    CASE dir = "/a" -> "a" [] dir = "/b" -> "b" [] dir = "/docs" -> "docs"
      [] dir = "/s2" -> "s2" [] dir = "/s4" -> "s4" [] dir = "/long" -> "long"
      [] dir = "/showa" -> "showa" [] dir = "/showb" -> "showb"
      [] dir = "/showd" -> "showd" [] OTHER -> ""

\* originalPath.startsWith(configuredPath), for the files of the library
StartsWith(filePath, configuredPath) ==
    \E i \in 1..Len(DirListing(configuredPath)) : DirListing(configuredPath)[i] = filePath

\* getVideoDisplayName: the basename of the first configured path that
\* holds the file, else the name of the file's parent folder.
getVideoDisplayName(channel, filePath) ==
    LET hits == {i \in 1..Len(channel.paths) : StartsWith(filePath, channel.paths[i])}
    IN  IF hits # {} THEN Basename(channel.paths[CHOOSE i \in hits : \A j \in hits : i <= j])
        ELSE LET parents == {dir \in Roots : StartsWith(filePath, dir)}
             IN  IF parents = {} THEN "" ELSE Basename(CHOOSE dir \in parents : TRUE)

\* allSegments.forEach of getSchedule: one video per run of segments with
\* the same videoIndex; startTime is the timestamp of the segment before
\* the run, duration the sum of the durations of the run.
Videos(channel, allSegments) ==
    LET n == Len(allSegments)
        first(i) == i = 1 \/ allSegments[i].videoIndex # allSegments[i - 1].videoIndex
        starts == SelectSeq([i \in 1..n |-> i], first)
        lastOf(i) == CHOOSE j \in i..n :
                        /\ \A k \in (i + 1)..j : ~first(k)
                        /\ (j = n \/ first(j + 1))
        sum(i, j) == BagCardinality([k \in i..j |-> allSegments[k].duration])
    IN  [v \in 1..Len(starts) |->
            [videoIndex |-> allSegments[starts[v]].videoIndex,
             displayName |-> getVideoDisplayName(channel,
                                channel.queue[allSegments[starts[v]].videoIndex + 1]),
             startTime |-> IF starts[v] = 1 THEN 0 ELSE allSegments[starts[v] - 1].timestamp,
             duration |-> sum(starts[v], lastOf(starts[v]))]]

\* this.startTime = null
NullTime == -1

\* getCurrentOffset, in milliseconds (0 when the channel has no startTime)
getCurrentOffset(channel, t) ==
    IF channel.startTime = NullTime \/ channel.startTime = 0 THEN 0
    ELSE t - channel.startTime

\* The two while loops and videos.forEach of getSchedule: the entries
\* pushed, in the order they are pushed.
ScheduleEntries(channel, allSegments, t) ==
    LET videos == Videos(channel, allSegments)
        loopDuration == ToMs(TotalDuration(allSegments))
        dayStart == getPrevious3am(t)
        dayEnd == getNext3am(t)
        normalizedOffset == JsMod(getCurrentOffset(channel, t), loopDuration)
        playerTime == t + (bufferAhead * loopDuration) \div Len(allSegments)
        loopStartTime == t - normalizedOffset
        scheduleLoopStart ==
            IF loopStartTime > dayStart
            THEN loopStartTime - CeilDiv(loopStartTime - dayStart, loopDuration) * loopDuration
            ELSE loopStartTime
        loops == IF scheduleLoopStart < dayEnd
                 THEN CeilDiv(dayEnd - scheduleLoopStart, loopDuration) ELSE 0
        nv == Len(videos)
        entry(c) ==
            LET currentLoopStart == scheduleLoopStart + ((c - 1) \div nv) * loopDuration
                video == videos[((c - 1) % nv) + 1]
                videoStartMs == currentLoopStart + ToMs(video.startTime)
                videoEndMs == videoStartMs + ToMs(video.duration)
            IN  [title |-> video.displayName,
                 startTime |-> videoStartMs,
                 endTime |-> videoEndMs,
                 duration |-> ToMs(video.duration),
                 isCurrent |-> videoStartMs <= playerTime /\ videoEndMs > playerTime]
        pushed(e) == e.duration > 0 /\ e.endTime > dayStart /\ e.startTime < dayEnd
    IN  SelectSeq([c \in 1..(loops * nv) |-> entry(c)], pushed)

\* schedule.sort((a, b) => a.startTime - b.startTime), a stable sort:
\* entry i goes to position rank[i].
SortByStart(schedule) ==
    LET n == Len(schedule)
        key == <<>> \o [i \in 1..n |-> schedule[i].startTime]
        rank == <<>> \o [i \in 1..n |->
                    Cardinality({j \in 1..n : key[j] < key[i] \/ (key[j] = key[i] /\ j < i)}) + 1]
    IN  [r \in 1..n |-> schedule[CHOOSE i \in 1..n : rank[i] = r]]

\* SHORT_THRESHOLD = 20 * 60 seconds
SHORT_THRESHOLD == 20 * 60 * 1000

\* Variant of MergeWhileTest that merges across titles.
MergeWhileTestAnyTitle(schedule, w) ==
    /\ w.j <= Len(schedule)
    /\ schedule[w.j].duration < SHORT_THRESHOLD

\* Variant of MergeWhileBody that keeps the end of the first entry.
MergeWhileBodyKeepEnd(schedule, w) ==
    [merged |-> [w.merged EXCEPT !.duration = @ + schedule[w.j].duration,
                                 !.isCurrent = @ \/ schedule[w.j].isCurrent],
     j |-> w.j + 1]

\* The condition and the body of the inner while loop of the merge pass;
\* w holds the entry merged so far and the next index j.
MergeWhileTest(schedule, w) ==
    /\ w.j <= Len(schedule)
    /\ schedule[w.j].title = w.merged.title
    /\ schedule[w.j].duration < SHORT_THRESHOLD

MergeWhileBody(schedule, w) ==
    [merged |-> [w.merged EXCEPT !.endTime = schedule[w.j].endTime,
                                 !.duration = @ + schedule[w.j].duration,
                                 !.isCurrent = @ \/ schedule[w.j].isCurrent],
     j |-> w.j + 1]

\* Up to n iterations of the inner while loop from w (the n iterations are
\* run as two halves, which keeps the evaluation shallow).
RECURSIVE MergeWhileTimes(_, _, _)
MergeWhileTimes(schedule, w, n) ==
    IF n <= 0 \/ ~MergeWhileTest(schedule, w) THEN w
    ELSE IF n = 1 THEN MergeWhileBody(schedule, w)
    ELSE MergeWhileTimes(schedule, MergeWhileTimes(schedule, w, n \div 2), n - n \div 2)

\* The inner while loop: it ends within Len(schedule) iterations.
MergeWhile(schedule, merged, j) ==
    MergeWhileTimes(schedule, [merged |-> merged, j |-> j], Len(schedule))

\* Variant of MergeForBody that does not skip the entries it merged (the
\* loop goes on at i + 1).
MergeForBodyNoSkip(schedule, f) ==
    IF schedule[f.i].duration < SHORT_THRESHOLD
    THEN LET w == MergeWhile(schedule, schedule[f.i], f.i + 1)
         IN  [i |-> f.i + 1, mergedSchedule |-> Append(f.mergedSchedule, w.merged)]
    ELSE [i |-> f.i + 1, mergedSchedule |-> Append(f.mergedSchedule, schedule[f.i])]

\* The body of the for loop of the merge pass; f holds the index i and the
\* entries pushed so far.
MergeForBody(schedule, f) ==
    IF schedule[f.i].duration < SHORT_THRESHOLD
    THEN LET w == MergeWhile(schedule, schedule[f.i], f.i + 1)
         IN  [i |-> w.j, mergedSchedule |-> Append(f.mergedSchedule, w.merged)]
    ELSE [i |-> f.i + 1, mergedSchedule |-> Append(f.mergedSchedule, schedule[f.i])]

\* Up to n iterations of the for loop from f.
RECURSIVE MergeForTimes(_, _, _)
MergeForTimes(schedule, f, n) ==
    IF n <= 0 \/ f.i > Len(schedule) THEN f
    ELSE IF n = 1 THEN MergeForBody(schedule, f)
    ELSE MergeForTimes(schedule, MergeForTimes(schedule, f, n \div 2), n - n \div 2)

\* The merge pass: the for loop ends within Len(schedule) iterations.
MergeSchedule(schedule) ==
    MergeForTimes(schedule, [i |-> 1, mergedSchedule |-> <<>>], Len(schedule)).mergedSchedule

\* The sorted schedule before the merge pass, and getSchedule.
SortedSchedule(channel, d, t) ==
    LET allSegments == generateMasterPlaylist(channel, d)
    IN  IF Len(allSegments) = 0 THEN <<>>
        ELSE SortByStart(ScheduleEntries(channel, allSegments, t))

getSchedule(channel, d, t) == MergeSchedule(SortedSchedule(channel, d, t))

\* ------------------------------------------------------------------------
\* Channel definitions and the Channel constructor
\* ------------------------------------------------------------------------

Definition(type, slug, paths) == [type |-> type, name |-> slug, slug |-> slug, paths |-> paths]

\* The definitions file: missing, invalid (unreadable or not JSON), or
\* valid with the list of definitions it holds.
Missing == [state |-> "missing", defs |-> <<>>]
Invalid == [state |-> "invalid", defs |-> <<>>]
Valid(defs) == [state |-> "valid", defs |-> defs]

DefaultChannels == Valid(<< Definition("shuffle", "example", <<"/media">>) >>)

DefsMain == Valid(<< Definition("sequential", "one", <<"/a", "/b">>) >>)
DefsTwice == Valid(<< Definition("sequential", "one", <<"/a", "/a">>) >>)
DefsGone == Valid(<< Definition("sequential", "one", <<"/a">>),
                     Definition("sequential", "docs", <<"/docs">>),
                     Definition("sequential", "bad", <<"/gone">>),
                     Definition("shuffle", "two", <<"/b">>) >>)

DefsChoices == {DefsMain, DefsTwice, DefsGone, Invalid}

Slugs == {"one", "two", "docs", "bad", "example"}

Extension(file) ==
    CASE file \in {"/a/1.mp4", "/b/1.mp4", "/s2/x.mp4", "/s4/1.mp4", "/s4/2.mp4", "/long/x.mp4",
                   "/showa/1.mp4", "/showa/2.mp4", "/showb/1.mp4",
                   "/showd/1.mp4", "/showd/2.mp4", "/showd/3.mp4"} -> "mp4"
      [] file = "/b/2.mkv" -> "mkv"
      [] OTHER -> "txt"

SupportedExtensions == {"mp4", "mkv", "mov", "avi", "m4v", "webm", "ts"}

\* Format.isSupported
isSupported(file) == Extension(file) \in SupportedExtensions

\* definition.paths.forEach: findFiles(dirPath), the supported ones pushed.
RECURSIVE FoundFiles(_)
FoundFiles(paths) ==
    IF paths = <<>> THEN <<>>
    ELSE SelectSeq(DirListing(Head(paths)), isSupported) \o FoundFiles(Tail(paths))

\* findFiles throws (fs.readdirSync) on a root that does not exist.
ChannelThrows(definition) ==
    \E i \in 1..Len(definition.paths) : ~DirExists(definition.paths[i])

\* queue.sort(() => Math.random() - 0.5): any order of the queue.
Shuffles(s) ==
    LET n == Len(s)
        bij == {f \in [1..n -> 1..n] : \A a, b \in 1..n : a # b => f[a] # f[b]}
    IN  {[i \in 1..n |-> s[f[i]]] : f \in bij}

ChannelQueues(definition) ==
    IF definition.type = "shuffle" THEN Shuffles(FoundFiles(definition.paths))
    ELSE {FoundFiles(definition.paths)}

\* new Channel(definition), with the queue it built; id numbers the object.
Channel(definition, queue, id) ==
    [id |-> id, type |-> definition.type, name |-> definition.name,
     slug |-> definition.slug, paths |-> definition.paths, queue |-> queue,
     startTime |-> NullTime, started |-> FALSE]

\* Variant of ChannelStart: the flag is set and the epoch left unset.
ChannelStartedOnly(channel, t) == [channel EXCEPT !.started = TRUE]

\* Channel.start
ChannelStart(channel, t) == [channel EXCEPT !.started = TRUE, !.startTime = t]

\* Channel.getPlaylist (null when not started)
NullPlaylist == <<>>

getPlaylist(channel, d, t) ==
    IF ~channel.started THEN NullPlaylist
    ELSE createRollingPlaylistAired(channel, d, t - channel.startTime)

\* ------------------------------------------------------------------------
\* ChannelPool and Broadcaster
\* ------------------------------------------------------------------------

\* loadChannels: the parsed definitions, [] on any error.  A missing file
\* is first created with the default channel.
FileAfterLoad(file) == IF file.state = "missing" THEN DefaultChannels ELSE file

loadChannels(file) ==
    IF FileAfterLoad(file).state = "invalid" THEN <<>> ELSE FileAfterLoad(file).defs

\* initializeChannels: the pools it can leave (one per outcome of the
\* shuffles).  The try/catch encloses the whole forEach: the first
\* definition whose constructor throws ends the loop.
RECURSIVE initializeChannels(_, _, _)
initializeChannels(channelDefinitions, p, id) ==
    IF channelDefinitions = <<>> THEN {p}
    ELSE IF ChannelThrows(Head(channelDefinitions)) THEN {p}
    ELSE UNION { initializeChannels(Tail(channelDefinitions),
                                    Append(p, Channel(Head(channelDefinitions), q, id)),
                                    id + 1)
                 : q \in ChannelQueues(Head(channelDefinitions)) }

\* ChannelPool.clearChannels (no channel has a stop method)
clearChannels(p) == <<>>

\* ChannelPool.startBroadcast
startBroadcast(p, t) == [i \in 1..Len(p) |-> ChannelStart(p[i], t)]

\* ChannelPool.getChannelBySlug / queue.find(c => c.slug === slug): the
\* position of the first channel with the slug, 0 when there is none.
FindChannel(p, slug) ==
    LET hits == {i \in 1..Len(p) : p[i].slug = slug}
    IN  IF hits = {} THEN 0 ELSE CHOOSE i \in hits : \A j \in hits : i <= j

\* ------------------------------------------------------------------------
\* PreGenerator
\* ------------------------------------------------------------------------

Put(d, key, dir) == [k \in (DOMAIN d) \cup {key} |-> IF k = key THEN dir ELSE d[k]]
Remove(d, key) == [k \in (DOMAIN d) \ {key} |-> d[k]]

BundleKey(slug, filePath) == <<slug, getVideoHash(filePath)>>

\* deletePartialGeneration: every file unlinked, the directory removed.
deletePartialGeneration(d, key) == Remove(d, key)

\* isAlreadyGenerated: its result and the disk it leaves.
isAlreadyGenerated(d, filePath, channelSlug) ==
    LET key == BundleKey(channelSlug, filePath)
        b == Bundle(d, channelSlug, filePath)
        segmentRefs == {b.index[i].num[1] : i \in {j \in 1..Len(b.index) : b.index[j].tag = "SEGMENT"}}
        no == [result |-> FALSE, disk |-> deletePartialGeneration(d, key)]
    IN  IF ~b.hasIndex
        THEN [result |-> FALSE,
              disk |-> IF b.exists THEN deletePartialGeneration(d, key) ELSE d]
        ELSE IF b.files = {} THEN no
        ELSE IF ~HasEndlist(b.index) THEN no
        ELSE IF \E r \in segmentRefs : r \notin b.files THEN no
        ELSE [result |-> TRUE, disk |-> d]

Item(filePath, slug) == [filePath |-> filePath, channel |-> slug]

\* channel.queue.forEach of queueChannel, from queue position q on.
RECURSIVE QueueScan(_, _, _, _)
QueueScan(channel, q, d, channelQueue) ==
    IF q > Len(channel.queue) THEN [channelQueue |-> channelQueue, disk |-> d]
    ELSE LET c == isAlreadyGenerated(d, channel.queue[q], channel.slug)
         IN  QueueScan(channel, q + 1, c.disk,
                       IF ~c.result THEN Append(channelQueue, Item(channel.queue[q], channel.slug))
                       ELSE channelQueue)

\* queueChannel: the scheduler state and the disk it leaves.
queueChannel(g, d, channel) ==
    LET r == QueueScan(channel, 1, d, <<>>)
    IN  [pg |-> [g EXCEPT !.channelQueues =
                     IF Len(r.channelQueue) > 0 THEN Append(@, r.channelQueue) ELSE @],
         disk |-> r.disk]

\* ChannelPool().queue.forEach(channel => PreGenerator.queueChannel(channel))
RECURSIVE QueueAll(_, _, _, _)
QueueAll(p, i, g, d) ==
    IF i > Len(p) THEN [pg |-> g, disk |-> d]
    ELSE LET r == queueChannel(g, d, p[i]) IN QueueAll(p, i + 1, r.pg, r.disk)

\* One pass of the for-loop over channelQueues: the heads shifted out.
RECURSIVE Heads(_)
Heads(channelQueues) ==
    IF channelQueues = <<>> THEN <<>>
    ELSE (IF Head(channelQueues) # <<>> THEN << Head(Head(channelQueues)) >> ELSE <<>>)
         \o Heads(Tail(channelQueues))

RECURSIVE Interleave(_, _)
Interleave(channelQueues, out) ==
    IF \A i \in 1..Len(channelQueues) : channelQueues[i] = <<>>
    THEN [generationQueue |-> out, channelQueues |-> channelQueues]
    ELSE Interleave([i \in 1..Len(channelQueues) |->
                        IF channelQueues[i] # <<>> THEN Tail(channelQueues[i]) ELSE <<>>],
                    out \o Heads(channelQueues))

\* Variant of buildInterleavedQueue: the sub-queues one after the other.
RECURSIVE Concatenated(_)
Concatenated(channelQueues) ==
    IF channelQueues = <<>> THEN <<>>
    ELSE Head(channelQueues) \o Concatenated(Tail(channelQueues))

buildConcatenatedQueue(g) ==
    [g EXCEPT !.generationQueue = Concatenated(g.channelQueues),
              !.channelQueues = [i \in 1..Len(g.channelQueues) |-> <<>>],
              !.totalVideos = Len(Concatenated(g.channelQueues))]

\* buildInterleavedQueue
buildInterleavedQueue(g) ==
    LET r == Interleave(g.channelQueues, <<>>)
    IN  [g EXCEPT !.generationQueue = r.generationQueue,
                  !.channelQueues = r.channelQueues,
                  !.totalVideos = Len(r.generationQueue)]

\* A run of startGeneration's for-of loop: the array it iterates, the
\* position of the item it awaits, the state of that item's transcoder
\* ("running", "exited", "spawnError", or "done" when the loop has ended),
\* the number of segments it has written, its exit code, and log, the
\* spawn calls made so far (with whether the bundle was complete).
NewRun(queue) == [queue |-> queue, pos |-> 0, status |-> "start", written |-> 0,
                  code |-> 0, log |-> <<>>]

\* The for-of loop with one retry of an item whose transcoder exited with a
\* non-zero code, in place of the loop's next step.
LoopStepRetry(g, d, run, spawnOk) ==
    IF /\ run.pos >= 1 /\ run.pos <= Len(run.queue)
       /\ run.status = "exited" /\ run.code # 0
       /\ Len(run.log) = run.pos
    THEN [pg |-> g, disk |-> d,
          run |-> [run EXCEPT !.status = IF spawnOk THEN "running" ELSE "spawnError",
                              !.written = 0, !.code = 0,
                              !.log = Append(@, [item |-> run.queue[run.pos],
                                                 complete |-> FALSE])]]
    ELSE IF run.pos + 1 > Len(run.queue)
    THEN [pg |-> [g EXCEPT !.isGenerating = FALSE], disk |-> d,
          run |-> [run EXCEPT !.pos = @ + 1, !.status = "done", !.written = 0, !.code = 0]]
    ELSE LET item == run.queue[run.pos + 1]
             key == <<item.channel, getVideoHash(item.filePath)>>
             b == Bundle(d, item.channel, item.filePath)
         IN  [pg |-> [g EXCEPT !.currentIndex = @ + 1],
              disk |-> IF b.exists THEN d ELSE Put(d, key, EmptyDir),
              run |-> [run EXCEPT !.pos = @ + 1,
                                  !.status = IF spawnOk THEN "running" ELSE "spawnError",
                                  !.written = 0, !.code = 0,
                                  !.log = Append(@, [item |-> item, complete |-> IsComplete(b)])]]

\* One step of the for-of loop: the next item is taken, currentIndex++,
\* generateVideo makes the directory and spawns; at the end of the array
\* isGenerating is reset.
LoopStep(g, d, run, spawnOk) ==
    IF run.pos + 1 > Len(run.queue)
    THEN [pg |-> [g EXCEPT !.isGenerating = FALSE], disk |-> d,
          run |-> [run EXCEPT !.pos = @ + 1, !.status = "done", !.written = 0, !.code = 0]]
    ELSE LET item == run.queue[run.pos + 1]
             key == BundleKey(item.channel, item.filePath)
             b == Bundle(d, item.channel, item.filePath)
         IN  [pg |-> [g EXCEPT !.currentIndex = @ + 1],
              disk |-> IF b.exists THEN d ELSE Put(d, key, EmptyDir),
              run |-> [run EXCEPT !.pos = @ + 1,
                                  !.status = IF spawnOk THEN "running" ELSE "spawnError",
                                  !.written = 0, !.code = 0,
                                  !.log = Append(@, [item |-> item, complete |-> IsComplete(b)])]]

\* startGeneration without the test of isGenerating.
startGenerationUnguarded(g, d, rs, spawnOk) ==
    LET built == buildInterleavedQueue(g)
    IN  IF Len(built.generationQueue) = 0 THEN [pg |-> built, disk |-> d, runs |-> rs]
        ELSE LET step == LoopStep([built EXCEPT !.isGenerating = TRUE, !.currentIndex = 0],
                                  d, NewRun(built.generationQueue), spawnOk)
             IN  [pg |-> step.pg, disk |-> step.disk, runs |-> Append(rs, step.run)]

\* startGeneration up to its first await: scheduler state, disk and runs.
startGeneration(g, d, rs, spawnOk) ==
    IF g.isGenerating THEN [pg |-> g, disk |-> d, runs |-> rs]
    ELSE LET built == buildInterleavedQueue(g)
         IN  IF Len(built.generationQueue) = 0 THEN [pg |-> built, disk |-> d, runs |-> rs]
             ELSE LET step == LoopStep([built EXCEPT !.isGenerating = TRUE, !.currentIndex = 0],
                                       d, NewRun(built.generationQueue), spawnOk)
                  IN  [pg |-> step.pg, disk |-> step.disk, runs |-> Append(rs, step.run)]

\* getProgress: Math.round((currentIndex / totalVideos) * 100) is the
\* quotient rounded half up, 100 when totalVideos is 0.
getProgress(g) ==
    [current |-> g.currentIndex,
     total |-> g.totalVideos,
     isGenerating |-> g.isGenerating,
     percentComplete |-> IF g.totalVideos > 0
                         THEN (2 * 100 * g.currentIndex + g.totalVideos) \div (2 * g.totalVideos)
                         ELSE 100]

\* ------------------------------------------------------------------------
\* State
\* ------------------------------------------------------------------------

VARIABLES
    now,        \* Date.now(), microseconds
    defsFile,   \* content of the channel definitions file
    mtime,      \* its modification time
    lastMtime,  \* watchChannelsFile's lastMtime
    booted,     \* startup() has run
    pool,       \* ChannelPool().queue
    nextId,     \* number of the next Channel object
    disk,       \* the bundle directories below CACHE_DIR, by bundle key
    pg,         \* the PreGenerator singleton
    runs,       \* the startGeneration loops started so far
    lastRead,   \* the last answer of the /:slug.m3u8 route
    synth       \* the last direct call of the synthesizer: offset and texts

sysVars == <<now, defsFile, mtime, lastMtime, booted, pool, nextId, disk, pg, runs, lastRead>>
vars == <<now, defsFile, mtime, lastMtime, booted, pool, nextId, disk, pg, runs, lastRead, synth>>

Boot == 1 * Second

NewPreGenerator ==
    [generationQueue |-> <<>>, channelQueues |-> <<>>, currentIndex |-> 0,
     totalVideos |-> 0, isGenerating |-> FALSE]

NoRead == [slug |-> "", at |-> 0, status |-> 0, playlist |-> NullPlaylist]
NoSynth == [called |-> FALSE, offset |-> 0, loops |-> 0,
            text |-> NullPlaylist, aired |-> NullPlaylist,
            at |-> NullTime, sorted |-> <<>>, schedule |-> <<>>]

\* Bundle stores an earlier process can have left below CACHE_DIR.
InitDisks ==
    { <<>>,
      Put(<<>>, BundleKey("one", "/a/1.mp4"), CompleteDir("/a/1.mp4")),
      Put(<<>>, BundleKey("one", "/b/1.mp4"), PartialDir("/b/1.mp4", 1)) }

InitFiles == {DefsMain, DefsTwice, DefsGone, Missing}

Init ==
    /\ now = Boot
    /\ defsFile \in InitFiles
    /\ mtime = 0
    /\ lastMtime = NullTime
    /\ booted = FALSE
    /\ pool = <<>>
    /\ nextId = 1
    /\ disk \in InitDisks
    /\ pg = NewPreGenerator
    /\ runs = <<>>
    /\ lastRead = NoRead
    /\ synth = NoSynth

\* ------------------------------------------------------------------------
\* Actions of the system
\* ------------------------------------------------------------------------

\* startup(): load and build the channels, start the watcher, start the
\* broadcast, queue every channel, start the generation (to its first await).
Startup ==
    /\ ~booted
    /\ booted' = TRUE
    /\ defsFile' = FileAfterLoad(defsFile)
    /\ lastMtime' = mtime
    /\ \E built \in initializeChannels(loadChannels(defsFile), pool, nextId) :
       \E spawnOk \in BOOLEAN :
          LET started == startBroadcast(built, now)
              queued == QueueAll(started, 1, pg, disk)
              gen == startGeneration(queued.pg, queued.disk, runs, spawnOk)
          IN  /\ pool' = started
              /\ nextId' = nextId + Len(built)
              /\ pg' = gen.pg
              /\ disk' = gen.disk
              /\ runs' = gen.runs
    /\ UNCHANGED <<now, mtime, lastRead, synth>>

\* The definitions file is rewritten.
EditDefinitions ==
    /\ booted
    /\ mtime < MaxEdits
    /\ \E content \in DefsChoices \ {defsFile} : defsFile' = content
    /\ mtime' = mtime + 1
    /\ UNCHANGED <<now, lastMtime, booted, pool, nextId, disk, pg, runs, lastRead, synth>>

\* The bundle keys whose directory a running transcoder is writing.
KeysWritten(rs) ==
    {BundleKey(rs[r].queue[rs[r].pos].channel, rs[r].queue[rs[r].pos].filePath) :
        r \in {x \in 1..Len(rs) : rs[x].status = "running"}}

\* deletePartialGeneration racing a transcoder that writes the directory:
\* the files readdirSync listed are unlinked, and when the transcoder
\* creates a file before rmdirSync, rmdirSync throws, the error is caught
\* and logged, and the directory stays.  keys are the bundles where that
\* happened; d is the disk with the directories removed.
rmdirFailed(d, keys) ==
    [k \in (DOMAIN d) \cup keys |-> IF k \in DOMAIN d THEN d[k] ELSE EmptyDir]

\* reloadChannels(): clear the pool, reset the scheduler's queue and
\* counters, load and build the channels, queue them, start the generation
\* (not awaited), start the broadcast.
reloadChannels ==
    LET cleared == clearChannels(pool)
        reset == [pg EXCEPT !.generationQueue = <<>>, !.currentIndex = 0, !.totalVideos = 0]
    IN  \E built \in initializeChannels(loadChannels(defsFile), cleared, nextId) :
        \E spawnOk \in BOOLEAN :
           LET queued == QueueAll(built, 1, reset, disk)
               gen == startGeneration(queued.pg, queued.disk, runs, spawnOk)
               reaped == (DOMAIN disk) \ (DOMAIN queued.disk)
           IN  /\ pool' = startBroadcast(built, now)
               /\ nextId' = nextId + Len(built)
               /\ pg' = gen.pg
               /\ \E raced \in SUBSET (reaped \cap KeysWritten(runs)) :
                     disk' = rmdirFailed(gen.disk, raced)
               /\ runs' = gen.runs

\* The polling timer of watchChannelsFile finds a new modification time.
Poll ==
    /\ booted
    /\ lastMtime # NullTime
    /\ mtime # lastMtime
    /\ lastMtime' = mtime
    /\ reloadChannels
    /\ UNCHANGED <<now, defsFile, mtime, booted, lastRead, synth>>

\* The wall clock advances.
Tick ==
    /\ now < Boot + MaxTicks * Second
    /\ now' = now + Second
    /\ UNCHANGED <<defsFile, mtime, lastMtime, booted, pool, nextId, disk, pg, runs, lastRead, synth>>

RunItem(r) == runs[r].queue[runs[r].pos]
RunKey(r) == BundleKey(RunItem(r).channel, RunItem(r).filePath)

\* The transcoder completes its next segment: the segment file is written
\* and the index rewritten to list the segments so far.
FfmpegWrite(r) ==
    /\ runs[r].status = "running"
    /\ runs[r].written < Len(FfmpegOutput(RunItem(r).filePath))
    /\ RunKey(r) \in DOMAIN disk
    /\ disk' = [disk EXCEPT ![RunKey(r)] =
                   [@ EXCEPT !.hasIndex = TRUE,
                             !.index = IndexContent(RunItem(r).filePath, runs[r].written + 1, FALSE),
                             !.files = @ \cup {runs[r].written}]]
    /\ runs' = [runs EXCEPT ![r].written = @ + 1]
    /\ UNCHANGED <<now, defsFile, mtime, lastMtime, booted, pool, nextId, pg, lastRead, synth>>

\* The transcoder finalizes the index and exits with code 0.
FfmpegFinish(r) ==
    /\ runs[r].status = "running"
    /\ runs[r].written = Len(FfmpegOutput(RunItem(r).filePath))
    /\ RunKey(r) \in DOMAIN disk
    /\ disk' = [disk EXCEPT ![RunKey(r)] =
                   [@ EXCEPT !.hasIndex = TRUE,
                             !.index = IndexContent(RunItem(r).filePath, runs[r].written, TRUE)]]
    /\ runs' = [runs EXCEPT ![r].status = "exited", ![r].code = 0]
    /\ UNCHANGED <<now, defsFile, mtime, lastMtime, booted, pool, nextId, pg, lastRead, synth>>

\* The transcoder exits with a non-zero code.
FfmpegFail(r) ==
    /\ runs[r].status = "running"
    /\ runs' = [runs EXCEPT ![r].status = "exited", ![r].code = 1]
    /\ UNCHANGED <<now, defsFile, mtime, lastMtime, booted, pool, nextId, disk, pg, lastRead, synth>>

\* ffmpeg.on('close') / ffmpeg.on('error'): on code 0 the metadata record
\* is written and the promise resolved, otherwise it is rejected; the
\* for-of loop of startGeneration then takes its next step.
Settle(r) ==
    /\ runs[r].status \in {"exited", "spawnError"}
    /\ \E spawnOk \in BOOLEAN :
          LET ok == runs[r].status = "exited" /\ runs[r].code = 0
              written == IF ok /\ RunKey(r) \in DOMAIN disk
                         THEN [disk EXCEPT ![RunKey(r)].hasMetadata = TRUE,
                                           ![RunKey(r)].metadata =
                                               Metadata(RunItem(r).filePath)]
                         ELSE disk
              step == LoopStep(pg, written, runs[r], spawnOk)
          IN  /\ pg' = step.pg
              /\ disk' = step.disk
              /\ runs' = [runs EXCEPT ![r] = step.run]
    /\ UNCHANGED <<now, defsFile, mtime, lastMtime, booted, pool, nextId, lastRead, synth>>

\* Variant of Route: a slug is answered with the manifest only when the
\* request before it was for the same slug (state kept per request).
RoutePerRequest(slug) ==
    LET i == FindChannel(pool, slug)
    IN  IF i = 0 THEN [status |-> 404, playlist |-> NullPlaylist]
        ELSE IF lastRead.slug # slug THEN [status |-> 200, playlist |-> EmptyPlaylist]
        ELSE [status |-> 200, playlist |-> getPlaylist(pool[i], disk, now)]

\* The handler of GET /:slug.m3u8: the status and the body it sends.
Route(slug) ==
    LET i == FindChannel(pool, slug)
        playlist == IF i = 0 THEN NullPlaylist ELSE getPlaylist(pool[i], disk, now)
    IN  [status |-> IF i = 0 THEN 404
                    ELSE IF ~pool[i].started \/ playlist = NullPlaylist THEN 500
                    ELSE 200,
         playlist |-> playlist]

\* Variant of Request: the handler restarts the channel it serves (the
\* epoch is set to the time of the request).
RequestRestarting(slug) ==
    /\ booted
    /\ lastRead' = [slug |-> slug, at |-> now,
                    status |-> Route(slug).status,
                    playlist |-> Route(slug).playlist]
    /\ pool' = IF FindChannel(pool, slug) = 0 THEN pool
               ELSE [pool EXCEPT ![FindChannel(pool, slug)] = ChannelStart(@, now)]
    /\ UNCHANGED <<now, defsFile, mtime, lastMtime, booted, nextId, disk, pg, runs, synth>>

\* GET /:slug.m3u8
Request(slug) ==
    /\ booted
    /\ lastRead' = [slug |-> slug, at |-> now,
                    status |-> Route(slug).status,
                    playlist |-> Route(slug).playlist]
    /\ UNCHANGED <<now, defsFile, mtime, lastMtime, booted, pool, nextId, disk, pg, runs, synth>>

\* The server: startup, the definitions watcher, the clock, the transcoder
\* processes and the generation loop.
Next ==
    \/ Startup
    \/ EditDefinitions
    \/ Poll
    \/ Tick
    \/ \E r \in 1..Len(runs) : FfmpegWrite(r)
    \/ \E r \in 1..Len(runs) : FfmpegFinish(r)
    \/ \E r \in 1..Len(runs) : FfmpegFail(r)
    \/ \E r \in 1..Len(runs) : Settle(r)

Spec == Init /\ [][Next]_vars

\* The server with a client reading manifests (the definitions file is
\* left alone).
NextClient ==
    \/ Startup
    \/ Tick
    \/ \E r \in 1..Len(runs) : FfmpegWrite(r)
    \/ \E r \in 1..Len(runs) : FfmpegFinish(r)
    \/ \E r \in 1..Len(runs) : FfmpegFail(r)
    \/ \E r \in 1..Len(runs) : Settle(r)
    \/ \E slug \in Slugs : Request(slug)

SpecClient == Init /\ [][NextClient]_vars

\* The wall clock is set back (Date.now() is not monotonic: a clock
\* correction can move it below a value it had before).
ClockBack ==
    /\ now > Boot - MaxBack * Second
    /\ now' = now - Second
    /\ UNCHANGED <<defsFile, mtime, lastMtime, booted, pool, nextId, disk, pg, runs, lastRead, synth>>

\* The server and a client under a wall clock that can also be set back.
NextRegress ==
    \/ Startup
    \/ Tick
    \/ ClockBack
    \/ \E r \in 1..Len(runs) : FfmpegWrite(r)
    \/ \E r \in 1..Len(runs) : FfmpegFinish(r)
    \/ \E r \in 1..Len(runs) : FfmpegFail(r)
    \/ \E r \in 1..Len(runs) : Settle(r)
    \/ \E slug \in Slugs : Request(slug)

SpecRegress == Init /\ [][NextRegress]_vars

\* The generation under fairness: a transcoder process that runs takes its
\* next step (writes a segment, finishes or fails), so it eventually exits,
\* and the event loop delivers the exit to the handlers.  The clock is left
\* out: no step of the generation reads it.
ProcessStep(r) ==
    r \in 1..Len(runs) /\ (FfmpegWrite(r) \/ FfmpegFinish(r) \/ FfmpegFail(r))

ExitDelivered(r) == r \in 1..Len(runs) /\ Settle(r)

MaxRuns == MaxEdits + 1

NextGeneration ==
    \/ Startup
    \/ EditDefinitions
    \/ Poll
    \/ \E r \in 1..Len(runs) : FfmpegWrite(r)
    \/ \E r \in 1..Len(runs) : FfmpegFinish(r)
    \/ \E r \in 1..Len(runs) : FfmpegFail(r)
    \/ \E r \in 1..Len(runs) : Settle(r)

FairSpec ==
    /\ Init
    /\ [][NextGeneration]_vars
    /\ \A r \in 1..MaxRuns : WF_vars(ProcessStep(r)) /\ WF_vars(ExitDelivered(r))

\* ------------------------------------------------------------------------
\* The synthesizer called directly on a fixed compiled program
\* ------------------------------------------------------------------------

\* Offsets handed to createRollingPlaylist lie on a grid of 4.5 s: it holds
\* positions inside segments, segment boundaries and loop boundaries of the
\* programs below, and a position past windowBehind segments of the long one.
OffsetStep == 4 * Second + 500 * Milli

SynthDefinitions ==
    { Definition("sequential", "s2", <<"/s2">>),
      Definition("sequential", "long", <<"/long">>),
      Definition("sequential", "one", <<"/a", "/b">>),
      Definition("sequential", "s4", <<"/s4">>),
      Definition("sequential", "docs", <<"/docs">>) }

\* A disk holding the complete bundle of every file of a channel's queue.
RECURSIVE GeneratedDisk(_, _, _)
GeneratedDisk(channel, q, d) ==
    IF q > Len(channel.queue) THEN d
    ELSE GeneratedDisk(channel, q + 1,
                       Put(d, BundleKey(channel.slug, channel.queue[q]),
                           CompleteDir(channel.queue[q])))

SynthChannel(definition) ==
    ChannelStart(Channel(definition, FoundFiles(definition.paths), 1), 0)

InitSynth ==
    /\ now = 0
    /\ defsFile = Missing
    /\ mtime = 0
    /\ lastMtime = NullTime
    /\ booted = FALSE
    /\ \E definition \in SynthDefinitions :
          /\ pool = << SynthChannel(definition) >>
          /\ disk = GeneratedDisk(SynthChannel(definition), 1, <<>>)
    /\ nextId = 2
    /\ pg = NewPreGenerator
    /\ runs = <<>>
    /\ lastRead = NoRead
    /\ synth = NoSynth

\* The compiled program of the channel under the synthesizer.
Program == generateMasterPlaylist(pool[1], disk)

\* Both revisions of createRollingPlaylist called with an offset.
SynthCall(offsetSeconds, loops) ==
    /\ synth' = [called |-> TRUE, offset |-> offsetSeconds, loops |-> loops,
                 text |-> createRollingPlaylist(pool[1], disk, offsetSeconds),
                 aired |-> createRollingPlaylistAired(pool[1], disk, offsetSeconds),
                 at |-> NullTime, sorted |-> <<>>, schedule |-> <<>>]
    /\ UNCHANGED sysVars

\* A call with an offset of the grid, or with 3 s (inside the second
\* segment of a program of 2-second segments).
Synthesize ==
    \E offsetSeconds \in {n * OffsetStep : n \in 0..MaxOffsetSteps} \cup {3 * Second} :
        SynthCall(offsetSeconds, 0)

\* A call exactly one loop (the total duration) after the last call.
SynthesizeLoopLater ==
    /\ synth.called
    /\ synth.loops < MaxLoops
    /\ Len(Program) >= 1
    /\ TotalDuration(Program) > 0
    /\ SynthCall(synth.offset + TotalDuration(Program), synth.loops + 1)

NextSynth ==
    \/ Synthesize
    \/ SynthesizeLoopLater

SpecSynth == InitSynth /\ [][NextSynth]_vars

\* ------------------------------------------------------------------------
\* The scheduler's queues built for pools of several channels
\* ------------------------------------------------------------------------

\* Channels of three, two, three and one files.  The bundle stores are those
\* of the system, and one where a transcode ended (index finalized, every
\* segment written) and the process stopped before metadata.json was written.
QueueDefinitions ==
    { Definition("sequential", "one", <<"/a", "/b">>),
      Definition("sequential", "two", <<"/s4">>),
      Definition("sequential", "example", <<"/showd">>),
      Definition("sequential", "docs", <<"/showb">>) }

\* Pools of one to three of the channels, in any order of addition.
QueuePools ==
    LET one == {<<a>> : a \in QueueDefinitions}
        two == {<<a, b>> : a, b \in QueueDefinitions}
        three == {<<a, b, c>> : a, b, c \in QueueDefinitions}
        distinct(ds) == \A i, j \in 1..Len(ds) : i # j => ds[i] # ds[j]
    IN  {ds \in one \cup two \cup three : distinct(ds)}

InitQueue ==
    /\ now = Boot
    /\ defsFile = Missing
    /\ mtime = 0
    /\ lastMtime = NullTime
    /\ booted = FALSE
    /\ \E ds \in QueuePools :
          pool = [i \in 1..Len(ds) |-> Channel(ds[i], FoundFiles(ds[i].paths), i)]
    /\ nextId = 4
    /\ disk \in InitDisks
               \cup { Put(<<>>, BundleKey("one", "/a/1.mp4"),
                          [CompleteDir("/a/1.mp4") EXCEPT !.hasMetadata = FALSE,
                                                          !.metadata = NoMetadata]) }
    /\ pg = NewPreGenerator
    /\ runs = <<>>
    /\ lastRead = NoRead
    /\ synth = NoSynth

\* ChannelPool().queue.forEach(channel => PreGenerator.queueChannel(channel))
QueueChannels ==
    /\ ~booted
    /\ booted' = TRUE
    /\ LET queued == QueueAll(pool, 1, pg, disk)
       IN  pg' = queued.pg /\ disk' = queued.disk
    /\ UNCHANGED <<now, defsFile, mtime, lastMtime, pool, nextId, runs, lastRead, synth>>

\* buildInterleavedQueue on the sub-queues left by queueChannel.
BuildQueue ==
    /\ booted
    /\ \E c \in 1..Len(pg.channelQueues) : pg.channelQueues[c] # <<>>
    /\ pg' = buildInterleavedQueue(pg)
    /\ UNCHANGED <<now, defsFile, mtime, lastMtime, booted, pool, nextId, disk, runs, lastRead, synth>>

NextQueue ==
    \/ QueueChannels
    \/ BuildQueue

SpecQueue == InitQueue /\ [][NextQueue]_vars

\* ------------------------------------------------------------------------
\* The program guide called directly
\* ------------------------------------------------------------------------

\* The instants of the guide's calls: a grid that starts with the channel,
\* before 03:00, and runs past the following 03:00, and the two instants
\* around the first 03:00.
GuideEpoch == Day + 1 * Hour + 7 * 60 * 1000 + 3 * 1000
GuideTimes ==
    {GuideEpoch + n * (47 * 60 * 1000 + 13 * 1000) : n \in 0..MaxGuideSteps}
    \cup {Day + 3 * Hour - 1, Day + 3 * Hour}

GuideDefinitions ==
    { Definition("sequential", "g1", <<"/showa", "/showb">>),
      Definition("sequential", "g2", <<"/showa">>),
      Definition("sequential", "g3", <<"/showb">>),
      Definition("sequential", "g4", <<"/showd">>) }

GuideChannel(definition) ==
    ChannelStart(Channel(definition, FoundFiles(definition.paths), 1), GuideEpoch)

InitGuide ==
    /\ now = 0
    /\ defsFile = Missing
    /\ mtime = 0
    /\ lastMtime = NullTime
    /\ booted = FALSE
    /\ \E definition \in GuideDefinitions :
          /\ pool = << GuideChannel(definition) >>
          /\ disk = GeneratedDisk(GuideChannel(definition), 1, <<>>)
    /\ nextId = 2
    /\ pg = NewPreGenerator
    /\ runs = <<>>
    /\ lastRead = NoRead
    /\ synth = NoSynth

\* getSchedule called at instant t (one call in a behaviour).
GuideCall(t) ==
    /\ ~synth.called
    /\ synth' = [called |-> TRUE, offset |-> 0, loops |-> 0,
                 text |-> NullPlaylist, aired |-> NullPlaylist,
                 at |-> t,
                 sorted |-> SortedSchedule(pool[1], disk, t),
                 schedule |-> getSchedule(pool[1], disk, t)]
    /\ UNCHANGED sysVars

\* Sorted schedules handed to the merge pass alone: up to MaxEntries
\* contiguous entries with titles and durations of a small set, one of them
\* current.
ScheduleOf(titles, durations, current) ==
    [i \in 1..Len(titles) |->
        LET startTime == Day + BagCardinality([k \in 1..(i - 1) |-> durations[k]])
        IN  [title |-> titles[i],
             startTime |-> startTime,
             endTime |-> startTime + durations[i],
             duration |-> durations[i],
             isCurrent |-> i = current]]

\* The merge pass of getSchedule applied to a sorted schedule.
MergeCall ==
    /\ ~synth.called
    /\ \E n \in 1..MaxEntries :
       \E titles \in [1..n -> {"showa", "showb"}],
          durations \in [1..n -> {600 * 1000, 1200 * 1000}],
          current \in 1..n :
        /\ synth' = [called |-> TRUE, offset |-> 0, loops |-> 0,
                     text |-> NullPlaylist, aired |-> NullPlaylist,
                     at |-> NullTime,
                     sorted |-> ScheduleOf(titles, durations, current),
                     schedule |-> MergeSchedule(ScheduleOf(titles, durations, current))]
        /\ UNCHANGED sysVars

NextGuide ==
    \/ \E t \in GuideTimes : GuideCall(t)
    \/ MergeCall

SpecGuide == InitGuide /\ [][NextGuide]_vars

\* ------------------------------------------------------------------------
\* Properties
\* ------------------------------------------------------------------------

\* The program under the synthesizer has L >= 1 segments and T > 0.
ProgramPlays == Len(Program) >= 1 /\ TotalDuration(Program) > 0

\* C1: for a fixed compiled program with L >= 1 and T > 0, the media
\* sequence number written by createRollingPlaylist (either revision) is
\* non-decreasing in the offset: a call with a larger offset than the call
\* before it never writes a smaller sequence number.
C1_SequenceNonDecreasingInOffset ==
    [][ (synth.called /\ synth'.called /\ ProgramPlays /\ synth.offset < synth'.offset)
        => /\ SequenceOf(synth.text) <= SequenceOf(synth'.text)
           /\ SequenceOf(synth.aired) <= SequenceOf(synth'.aired) ]_vars

\* C1 witness: a call past the loop boundary of a program longer than
\* windowBehind, at a position more than windowBehind segments into the loop.
C1_Witness ==
    /\ synth.called
    /\ ProgramPlays
    /\ Len(Program) > windowBehind
    /\ synth.offset > TotalDuration(Program)
    /\ SequenceOf(synth.text) > Len(Program)
    /\ SequenceOf(synth.aired) = Len(Program)

\* C3: loop periodicity.  For a fixed compiled program (L >= 1, T > 0) the
\* manifest at offset a + T has the same body as the manifest at offset a
\* and a media sequence number larger by exactly L; at offset 33.0 on the
\* three-segment bundle of 16.5 s the sequence number is 6.
C3_LoopPeriodicity ==
    /\ [][ (synth.called /\ synth'.called /\ ProgramPlays
            /\ synth'.offset = synth.offset + TotalDuration(Program))
           => /\ BodyOf(synth'.text) = BodyOf(synth.text)
              /\ SequenceOf(synth'.text) = SequenceOf(synth.text) + Len(Program) ]_vars
    /\ [](synth.called /\ pool[1].slug = "s2" /\ synth.offset = 33 * Second
           => SequenceOf(synth.text) = 6)

\* C3 witness: the three-segment bundle called at offset 33.0, two loops
\* after a call at offset 0.
C3_Witness ==
    /\ synth.called
    /\ pool[1].slug = "s2"
    /\ Len(Program) = 3
    /\ TotalDuration(Program) = 16 * Second + 500 * Milli
    /\ synth.loops = 2
    /\ synth.offset = 33 * Second
    /\ SequenceOf(synth.text) = 6

\* C2: two sequential manifest reads of the same channel at wall-clock
\* instants t1 < t2 observe media sequence numbers s1 <= s2, also when a
\* transcode completes between the two reads.
C2_SequentialReadsNonDecreasing ==
    [][ (/\ lastRead.status = 200 /\ lastRead'.status = 200
         /\ lastRead'.slug = lastRead.slug
         /\ lastRead.at < lastRead'.at
         /\ IsLive(lastRead.playlist) /\ IsLive(lastRead'.playlist))
        => SequenceOf(lastRead.playlist) <= SequenceOf(lastRead'.playlist) ]_vars

\* Transcoder processes spawned and not yet exited.
Running == {r \in 1..Len(runs) : runs[r].status = "running"}

\* C4: at most one transcoder process runs at any time, across the startup
\* generation, definitions reloads and repeated startGeneration calls.
C4_AtMostOneTranscoder == Cardinality(Running) <= 1

\* C4 witness: a reload has called startGeneration while a transcoder of
\* the startup generation was running, and left its items queued.
C4_Witness ==
    /\ booted
    /\ mtime > 0 /\ lastMtime = mtime
    /\ Cardinality(Running) = 1
    /\ pg.isGenerating
    /\ \E i \in 1..Len(pg.channelQueues) : pg.channelQueues[i] # <<>>

\* C5: the transcoder is never invoked for a source item whose bundle is
\* already complete: at every spawn the bundle of the item was not complete.
C5_NeverSpawnedOnCompleteBundle ==
    \A r \in 1..Len(runs) : \A i \in 1..Len(runs[r].log) : ~runs[r].log[i].complete

\* C6: a bundle, once complete, is immutable: no step changes or deletes
\* the index, the segment files or the metadata of a complete bundle.
C6_CompleteBundleImmutable ==
    [][ \A key \in DOMAIN disk :
           IsComplete(disk[key]) => key \in DOMAIN disk' /\ disk'[key] = disk[key] ]_vars

\* C7: the epoch of a channel, identified by its slug, is captured when it
\* is started and never changes afterwards, and the channel's runtime state
\* is not destroyed: no step (start or reload) removes a started channel
\* from the pool or changes its epoch.
C7_EpochNeverUpdated ==
    [][ \A i \in 1..Len(pool) :
           pool[i].started =>
              \E j \in 1..Len(pool') :
                 /\ pool'[j].slug = pool[i].slug
                 /\ pool'[j].started
                 /\ pool'[j].startTime = pool[i].startTime ]_vars

\* C8: a reload that finds the definitions file unreadable or invalid is
\* not performed: the pool after it equals the pool before it.
C8_InvalidFileKeepsPool ==
    [][ (booted /\ lastMtime' # lastMtime /\ defsFile.state = "invalid")
        => pool' = pool ]_vars

\* C9: a definition whose root path does not exist, or holds no supported
\* file, yields a channel with an empty queue in the pool, and every other
\* definition of the list is built and added as well.
C9_EveryDefinitionBuilt ==
    (booted /\ lastMtime = mtime /\ defsFile.state = "valid")
    => \A i \in 1..Len(defsFile.defs) :
          \E j \in 1..Len(pool) :
             /\ pool[j].slug = defsFile.defs[i].slug
             /\ (ChannelThrows(defsFile.defs[i]) => pool[j].queue = <<>>)

\* C10: a failed transcode (non-zero exit or spawn failure) is skipped
\* without retry: provided every transcoder process eventually exits, a run
\* of startGeneration invokes the transcoder exactly once for each entry of
\* its flat queue, in queue order, whatever the outcome of earlier entries,
\* and then ends with isGenerating = false.
C10_EachEntryOnceThenDone ==
    /\ [](\A r \in 1..Len(runs) :
             /\ Len(runs[r].log) = Min(runs[r].pos, Len(runs[r].queue))
             /\ \A i \in 1..Len(runs[r].log) : runs[r].log[i].item = runs[r].queue[i])
    /\ [][ \A r \in 1..Len(runs) :
              (runs[r].status # "done" /\ runs'[r].status = "done")
              => (~pg'.isGenerating /\ Len(runs'[r].log) = Len(runs'[r].queue)) ]_vars
    /\ \A r \in 1..MaxRuns :
          (Len(runs) >= r) ~> (Len(runs) >= r /\ runs[r].status = "done")

\* C10 witness: a run has ended, with isGenerating = false, whose first
\* entry failed (its bundle is not complete) and whose second entry was
\* transcoded all the same.
C10_Witness ==
    \E r \in 1..Len(runs) :
       /\ runs[r].status = "done"
       /\ ~pg.isGenerating
       /\ Len(runs[r].queue) >= 2
       /\ Len(runs[r].log) = Len(runs[r].queue)
       /\ ~IsComplete(Bundle(disk, runs[r].queue[1].channel, runs[r].queue[1].filePath))
       /\ IsComplete(Bundle(disk, runs[r].queue[2].channel, runs[r].queue[2].filePath))

\* A step of the /:slug.m3u8 route for the given slug.
Served(slug) == lastRead' # lastRead /\ lastRead'.slug = slug

\* The bundles (channel slug, video hash) a playlist text names.
SourcesOf(m) ==
    LET uris(c) == {i \in 1..Len(m[c]) : m[c][i].tag = "URI"}
    IN  UNION {{<<m[c][i].uri[1], m[c][i].uri[2]>> : i \in uris(c)} : c \in 2..Len(m)}

\* C11: a channel that is broadcastable stays so.  Once a request for a
\* slug was answered with a live manifest (media-sequence header, at least
\* one segment, no end-of-list), which takes a successfully transcoded
\* bundle of the channel, the next request for that slug is answered with
\* a live manifest again, and it still holds the segments of every bundle
\* the earlier one held.
C11_BroadcastableStays ==
    [][\A slug \in Slugs :
          (/\ Served(slug)
           /\ lastRead.slug = slug
           /\ lastRead.status = 200
           /\ IsLive(lastRead.playlist))
          => /\ lastRead'.status = 200
             /\ IsLive(lastRead'.playlist)
             /\ Len(lastRead'.playlist) >= 2
             /\ SourcesOf(lastRead.playlist) \subseteq SourcesOf(lastRead'.playlist)]_vars

\* The definition lists a load can return: those of the files the
\* definitions file can hold, the empty list of an unreadable file left out.
DefinitionLists ==
    {loadChannels(file) : file \in InitFiles \cup DefsChoices} \ {<<>>}

\* The pool holds one started channel for each definition of the list, in
\* the order of the list.
BuiltFrom(p, channelDefinitions) ==
    /\ Len(p) = Len(channelDefinitions)
    /\ \A i \in 1..Len(p) : p[i].slug = channelDefinitions[i].slug /\ p[i].started

\* C12: readers never observe a partially built channel set.  In every
\* state in which a request can be served (the server has started, and no
\* handler is in the middle of its run), the pool is the complete set built
\* from one list of definitions, every channel of it started: never empty,
\* partly filled or partly started.
C12_PoolCompleteWhenServed ==
    booted => \E channelDefinitions \in DefinitionLists : BuiltFrom(pool, channelDefinitions)

\* The current index createRollingPlaylist computes for an offset, and the
\* segments each revision then emits.
IndexAt(offsetSeconds) ==
    CurrentIndex(Program, JsMod(offsetSeconds, TotalDuration(Program)))

EmittedWindow == SegmentsInWindow(Program, IndexAt(synth.offset))
EmittedAired == SegmentsAired(Program, IndexAt(synth.offset))

\* The lines of a playlist text with the given tag.
LinesOf(m, tag) ==
    UNION {{<<c, i>> : i \in {i \in 1..Len(m[c]) : m[c][i].tag = tag}} : c \in 1..Len(m)}

\* In text m, emitted for the segments w: the lines of segment j (its
\* #EXTINF and URI lines) are preceded by exactly one #EXT-X-DISCONTINUITY
\* line when j is not the first segment and the video index of j differs
\* from that of j - 1, and by none otherwise.
DiscontinuitiesPlaced(m, w) ==
    /\ Len(m) = Len(w) + 1
    /\ \A j \in 1..Len(w) :
          LET marks == {i \in 1..Len(m[j + 1]) : m[j + 1][i].tag = "#EXT-X-DISCONTINUITY"}
          IN  IF j > 1 /\ w[j].videoIndex # w[j - 1].videoIndex
              THEN marks = {1} /\ m[j + 1][2].tag = "#EXTINF"
              ELSE marks = {} /\ m[j + 1][1].tag = "#EXTINF"
    /\ \A i \in 1..Len(m[1]) : m[1][i].tag # "#EXT-X-DISCONTINUITY"

\* C13: discontinuity placement.  In every live manifest there is exactly
\* one #EXT-X-DISCONTINUITY line between each pair of consecutive emitted
\* segments whose videoIndex differs (the pair across the forward wrap from
\* the last source to the first included), and none between segments of
\* equal videoIndex or before the first segment.
C13_DiscontinuityPlacement ==
    (synth.called /\ ProgramPlays)
    => /\ DiscontinuitiesPlaced(synth.text, EmittedWindow)
       /\ DiscontinuitiesPlaced(synth.aired, EmittedAired)

\* C13 witness: a manifest of a program of several sources with the tag at
\* a source change, with the tag at the wrap from the last source to the
\* first, and with two consecutive segments of one source.
C13_Witness ==
    /\ synth.called
    /\ ProgramPlays
    /\ \E j \in 2..Len(EmittedWindow) :
          /\ EmittedWindow[j].videoIndex > EmittedWindow[j - 1].videoIndex
          /\ synth.text[j + 1][1].tag = "#EXT-X-DISCONTINUITY"
    /\ \E j \in 2..Len(EmittedWindow) :
          /\ EmittedWindow[j].videoIndex = 0
          /\ EmittedWindow[j - 1].videoIndex > 0
          /\ synth.text[j + 1][1].tag = "#EXT-X-DISCONTINUITY"
    /\ \E j \in 2..Len(EmittedWindow) :
          /\ EmittedWindow[j].videoIndex = EmittedWindow[j - 1].videoIndex
          /\ synth.text[j + 1][1].tag = "#EXTINF"
    /\ \E j \in 2..Len(EmittedAired) :
          /\ EmittedAired[j].videoIndex # EmittedAired[j - 1].videoIndex
          /\ synth.aired[j + 1][1].tag = "#EXT-X-DISCONTINUITY"

\* The number of #EXTINF lines of a playlist text.
ExtinfCount(m) == Cardinality(LinesOf(m, "#EXTINF"))

\* The window size min(windowBehind + windowAhead, windowAhead + k) for current index k.
WindowSize(k) == Min(windowBehind + windowAhead, windowAhead + k)

\* C14: window size.  For a program with L >= 1 and any offset, with k the
\* current index, the number of #EXTINF lines createRollingPlaylist emits
\* is min(windowBehind + windowAhead, windowAhead + k), and it never
\* exceeds windowBehind + windowAhead (2030); stated for both revisions.
C14_WindowSize ==
    (synth.called /\ ProgramPlays)
    => /\ ExtinfCount(synth.text) = WindowSize(IndexAt(synth.offset))
       /\ ExtinfCount(synth.text) <= windowBehind + windowAhead
       /\ ExtinfCount(synth.aired) = WindowSize(IndexAt(synth.offset))
       /\ ExtinfCount(synth.aired) <= windowBehind + windowAhead

\* Scenario S2: the channel of one source whose index holds 3 segments of
\* 6, 6 and 4.5 seconds, synthesized at offset 0.
ScenarioS2 == synth.called /\ pool[1].slug = "s2" /\ synth.offset = 0

\* The segment number and the duration written for emitted segment j.
SegmentOf(m, j) == m[j + 1][Len(m[j + 1])].uri[3]
DurationOf(m, j) == parseSegmentDuration(m[j + 1][Len(m[j + 1]) - 1])

\* What both revisions write in scenario S2 apart from the size of the
\* window: sequence 0, TARGETDURATION 6, no discontinuity, no end-of-list.
HeaderS2(m) ==
    /\ IsLive(m)
    /\ SequenceOf(m) = 0
    /\ TargetDurationOf(m) = 6
    /\ LinesOf(m, "#EXT-X-DISCONTINUITY") = {}
    /\ LinesOf(m, "#EXT-X-ENDLIST") = {}

EmptyChannel(slug) ==
    /\ FindChannel(pool, slug) # 0
    /\ pool[FindChannel(pool, slug)].started
    /\ generateMasterPlaylist(pool[FindChannel(pool, slug)], disk) = <<>>

\* The lines of a playlist text, in order, as <<tag, numbers>> pairs.
TagsOf(m) == [i \in 1..Len(m[1]) |-> <<m[1][i].tag, m[1][i].num>>]

LiveEdgeForm(m) ==
    /\ Len(m) >= 1
    /\ Len(m[1]) >= 4
    /\ m[1][1].tag = "#EXTM3U"
    /\ m[1][2].tag = "#EXT-X-VERSION" /\ m[1][2].num = <<3>>
    /\ m[1][3].tag = "#EXT-X-TARGETDURATION" /\ Len(m[1][3].num) = 1
    /\ m[1][4].tag = "#EXT-X-MEDIA-SEQUENCE" /\ Len(m[1][4].num) = 1
    /\ \A tag \in {"#EXTM3U", "#EXT-X-VERSION", "#EXT-X-TARGETDURATION", "#EXT-X-MEDIA-SEQUENCE"} :
          Cardinality(LinesOf(m, tag)) = 1
    /\ LinesOf(m, "#EXT-X-ENDLIST") = {}
    /\ LinesOf(m, "#EXT-X-PLAYLIST-TYPE") = {}

EmittedDurations(m) == {DurationOf(m, j) : j \in 1..(Len(m) - 1)}

\* The TARGETDURATION of text m is an integer n >= 2 with n >= ceil(d) for
\* every emitted duration d, and n = ceil(max(Dmax, 2)): n seconds are at
\* least max(Dmax, 2) and n - 1 seconds are less.
TargetDurationAdmissible(m) ==
    LET n == TargetDurationOf(m)
        top == SetMax(EmittedDurations(m), 2 * Second)
    IN  /\ n \in Nat
        /\ n >= 2
        /\ \A d \in EmittedDurations(m) : n * Second >= d
        /\ n * Second >= top
        /\ (n - 1) * Second < top

OffsetOf(channel, t) == t - channel.startTime
PhaseOf(channel, d, t) ==
    JsMod(OffsetOf(channel, t), TotalDuration(generateMasterPlaylist(channel, d)))
LoopCountOf(channel, d, t) ==
    JsFloorDiv(OffsetOf(channel, t), TotalDuration(generateMasterPlaylist(channel, d)))

C21_RequestLeavesStateUnchanged ==
    [][\A slug \in Slugs :
          Served(slug)
          => /\ pool' = pool
             /\ pg' = pg
             /\ runs' = runs
             /\ disk' = disk
             /\ <<defsFile, mtime, lastMtime, booted, nextId>>' =
                   <<defsFile, mtime, lastMtime, booted, nextId>>
             /\ \A i \in 1..Len(pool) :
                   getPlaylist([pool[i] EXCEPT !.started = FALSE, !.startTime = NullTime],
                               disk, now) = NullPlaylist]_vars

\* C21 witness: a manifest was served for a started channel, at a positive
\* offset, while a transcoder is writing the bundle store and the scheduler
\* holds a queue.
C21_Witness ==
    /\ booted
    /\ lastRead.status = 200
    /\ lastRead.at = now
    /\ IsLive(lastRead.playlist)
    /\ now > pool[FindChannel(pool, lastRead.slug)].startTime
    /\ pg.isGenerating
    /\ pg.generationQueue # <<>>
    /\ \E r \in 1..Len(runs) : runs[r].status = "running" /\ runs[r].written >= 1

\* C22: bundle completeness is an equivalence with the on-disk form.  For
\* every file of every channel's queue, isAlreadyGenerated reports the
\* bundle complete if and only if the index is present, holds the
\* end-of-list marker and lists at least one segment, every listed segment
\* file exists and the metadata record is present.
C22_CompletenessEquivalence ==
    \A i \in 1..Len(pool) : \A q \in 1..Len(pool[i].queue) :
       isAlreadyGenerated(disk, pool[i].queue[q], pool[i].slug).result
          <=> IsComplete(Bundle(disk, pool[i].slug, pool[i].queue[q]))

\* ------------------------------------------------------------------------
\* C23: guide coverage.  For a started channel with a loop of positive
\* duration, the schedule returned by getSchedule at instant t covers every
\* instant of [getPrevious3am(t), getNext3am(t)) by exactly one entry: every
\* entry is a non-empty half-open interval, each entry starts where the one
\* before it ends (so the entries are sorted by start, do not overlap and
\* leave no gap), the first starts at or before the previous 3am and the
\* last ends at or after the next 3am.
\* ------------------------------------------------------------------------
GuideAnswered == synth.called /\ synth.at # NullTime

CoversDay(schedule, dayStart, dayEnd) ==
    /\ Len(schedule) > 0
    /\ \A i \in 1..Len(schedule) : schedule[i].startTime < schedule[i].endTime
    /\ \A i \in 1..(Len(schedule) - 1) : schedule[i].endTime = schedule[i + 1].startTime
    /\ schedule[1].startTime <= dayStart
    /\ schedule[Len(schedule)].endTime >= dayEnd

C23_GuideCoversDay ==
    GuideAnswered =>
        CoversDay(synth.schedule, getPrevious3am(synth.at), getNext3am(synth.at))

\* C23 witness: a guide answered for a channel whose loop holds several
\* videos, where merging made the schedule shorter than the sorted list and
\* the first entry starts strictly before the previous 3am.
C23_Witness ==
    /\ GuideAnswered
    /\ 1 < Len(synth.schedule)
    /\ Len(synth.schedule) < Len(synth.sorted)
    /\ synth.schedule[1].startTime < getPrevious3am(synth.at)
    /\ CoversDay(synth.schedule, getPrevious3am(synth.at), getNext3am(synth.at))

\* ------------------------------------------------------------------------
\* C24: guide merge pass.  In the sorted schedule every maximal run of
\* consecutive entries that share one title and are each shorter than 20
\* minutes is collapsed into one entry: its start is the first's start, its
\* end the last's end, its duration the sum of the run's durations and its
\* isCurrent the OR over the run; an entry of 20 minutes or more is never
\* merged.  Four 600-second entries of one title give one entry of 2400
\* seconds.
\* ------------------------------------------------------------------------
ShortEntry(e) == e.duration < SHORT_THRESHOLD

\* Entry i opens a run: it is the first entry, or it does not continue the
\* entry before it (one of the two is long, or the titles differ).
OpensRun(sorted, i) ==
    \/ i = 1
    \/ ~ShortEntry(sorted[i])
    \/ ~ShortEntry(sorted[i - 1])
    \/ sorted[i].title # sorted[i - 1].title

MaximalRunsCollapsed(sorted) ==
    LET n == Len(sorted)
        opens(i) == OpensRun(sorted, i)
        starts == SelectSeq([i \in 1..n |-> i], opens)
        lastOf(k) == IF k = Len(starts) THEN n ELSE starts[k + 1] - 1
    IN  [k \in 1..Len(starts) |->
            [title |-> sorted[starts[k]].title,
             startTime |-> sorted[starts[k]].startTime,
             endTime |-> sorted[lastOf(k)].endTime,
             duration |-> BagCardinality([i \in starts[k]..lastOf(k) |-> sorted[i].duration]),
             isCurrent |-> \E i \in starts[k]..lastOf(k) : sorted[i].isCurrent]]

FourShortsOfOneTitle(sorted) ==
    /\ Len(sorted) = 4
    /\ \A i \in 1..4 : sorted[i].title = sorted[1].title /\ sorted[i].duration = 600 * 1000

C24_MergePass ==
    synth.called =>
        /\ synth.schedule = MaximalRunsCollapsed(synth.sorted)
        /\ \A i \in 1..Len(synth.sorted) :
              ~ShortEntry(synth.sorted[i]) =>
                  \E k \in 1..Len(synth.schedule) : synth.schedule[k] = synth.sorted[i]
        /\ FourShortsOfOneTitle(synth.sorted) =>
              /\ Len(synth.schedule) = 1
              /\ synth.schedule[1].duration = 2400 * 1000
              /\ synth.schedule[1].startTime = synth.sorted[1].startTime
              /\ synth.schedule[1].endTime = synth.sorted[4].endTime

\* C24 witness: the merge pass has run on four 600-second entries of one
\* title, of which only the third is current, and returned one current
\* entry of 2400 seconds.
C24_Witness ==
    /\ synth.called
    /\ FourShortsOfOneTitle(synth.sorted)
    /\ ~synth.sorted[1].isCurrent /\ synth.sorted[3].isCurrent
    /\ Len(synth.schedule) = 1
    /\ synth.schedule[1].duration = 2400 * 1000
    /\ synth.schedule[1].isCurrent

\* ------------------------------------------------------------------------
\* C25: current index.  As stated: with the cumulativeTimestamp of a record
\* defined as the sum of the durations of all earlier records (0 for the
\* first), the current index k is the smallest index whose
\* cumulativeTimestamp is strictly greater than the phase, 0 if there is
\* none; two sources of two 2-second segments at offset 3.0 give phase 3
\* and k = 2.
\* ------------------------------------------------------------------------
\* Sums of the durations of the records of p before index i (0-based) and
\* through index i, for every i.
DurationsBefore(p) == [i \in 0..(Len(p) - 1) |-> BagCardinality([j \in 1..i |-> p[j].duration])]
DurationsThrough(p) == [i \in 0..(Len(p) - 1) |-> BagCardinality([j \in 1..(i + 1) |-> p[j].duration])]

\* Smallest index whose mark is strictly greater than the phase, 0 if there
\* is none.
SmallestAbove(mark, phase) ==
    LET above == {i \in DOMAIN mark : mark[i] > phase}
    IN  IF above = {} THEN 0 ELSE CHOOSE i \in above : \A j \in above : i <= j

ScenarioTwoByTwo == synth.called /\ pool[1].slug = "s4" /\ synth.offset = 3 * Second

C25_CurrentIndexOverEarlierSums ==
    (synth.called /\ ProgramPlays) =>
        LET p == Program
            phase == JsMod(synth.offset, TotalDuration(p))
            k == CurrentIndex(p, phase)
            before == DurationsBefore(p) @@ <<>>
        IN  /\ k = SmallestAbove(before, phase)
            /\ ScenarioTwoByTwo => phase = 3 * Second /\ k = 2

\* C25 as the code has it: the timestamp of a record is the sum of the
\* durations of the records up to and including it; the current index k is
\* the smallest index whose timestamp is strictly greater than the phase (0
\* if there is none), which is the index of the segment the phase falls in;
\* the aired playlist then holds the first min(k + bufferAhead, L) records.
\* Two sources of two 2-second segments at offset 3.0 give phase 3 and k = 1.
C25_CurrentIndexOverTimestamps ==
    (synth.called /\ ProgramPlays) =>
        LET p == Program
            phase == JsMod(synth.offset, TotalDuration(p))
            k == CurrentIndex(p, phase)
            before == DurationsBefore(p) @@ <<>>
            through == DurationsThrough(p) @@ <<>>
        IN  /\ \A i \in 0..(Len(p) - 1) : p[i + 1].timestamp = through[i]
            /\ k = SmallestAbove(through, phase)
            /\ before[k] <= phase /\ phase < through[k]
            /\ ExtinfCount(synth.aired) = Min(k + bufferAhead, Len(p))
            /\ ScenarioTwoByTwo => phase = 3 * Second /\ k = 1

\* C25 witness: the program of two sources of two 2-second segments was
\* asked for offset 3.0 and the scan stopped at index 1.
C25_Witness ==
    /\ ScenarioTwoByTwo
    /\ Len(Program) = 4
    /\ TotalDuration(Program) = 8 * Second
    /\ IndexAt(synth.offset) = 1

\* ------------------------------------------------------------------------
\* C26: window composition.  With k the current index and L the number of
\* records, the emitted segments are, in order, the records at indices
\* max(0, k - 30), ..., k - 1 followed by the 2000 records at indices
\* (k + j) mod L for j = 0..1999: the low side is clamped at index 0, the
\* forward side wraps modulo L; stated for both revisions.
\* ------------------------------------------------------------------------
UriAt(m, j) == m[j + 1][Len(m[j + 1])].uri

\* The 0-based indices of the stated window, in order.
WindowIndices(k, L) ==
    LET low == Max(0, k - windowBehind)
    IN  [j \in 1..((k - low) + windowAhead) |->
            IF j <= k - low THEN low + (j - 1) ELSE (k + (j - (k - low) - 1)) % L]

ComposedOf(m, p, indices) ==
    /\ Len(m) = Len(indices) + 1
    /\ \A j \in 1..Len(indices) : UriAt(m, j) = p[indices[j] + 1].path

C26_WindowComposition ==
    (synth.called /\ ProgramPlays) =>
        LET p == Program
            k == CurrentIndex(p, JsMod(synth.offset, TotalDuration(p)))
            indices == <<>> \o WindowIndices(k, Len(p))
        IN  /\ ComposedOf(synth.text, p, indices)
            /\ ComposedOf(synth.aired, p, indices)

\* ------------------------------------------------------------------------
\* C27: round-robin flattening.  buildInterleavedQueue leaves a flat queue
\* that holds each item of each sub-queue exactly once, keeps every
\* channel's own order, and for every j places the j-th item of each
\* channel (channels in the order they were added) before the (j+1)-th item
\* of any channel; so the first item of every channel with pending work is
\* among the first C entries, C being the number of non-empty sub-queues.
\* ------------------------------------------------------------------------
PositionsOf(flat, item) == {p \in 1..Len(flat) : flat[p] = item}

RoundRobin(channelQueues, flat) ==
    LET n == Len(channelQueues)
        nonEmpty == {c \in 1..n : channelQueues[c] # <<>>}
        pos(c, j) == CHOOSE p \in PositionsOf(flat, channelQueues[c][j]) : TRUE
    IN  /\ Len(flat) = BagCardinality([c \in 1..n |-> Len(channelQueues[c])])
        /\ \A c \in 1..n : \A j \in 1..Len(channelQueues[c]) :
              Cardinality(PositionsOf(flat, channelQueues[c][j])) = 1
        /\ \A c \in 1..n : \A j \in 1..(Len(channelQueues[c]) - 1) :
              pos(c, j) < pos(c, j + 1)
        /\ \A c, e \in 1..n : \A j \in 1..Len(channelQueues[c]) :
              /\ (j + 1 <= Len(channelQueues[e])) => pos(c, j) < pos(e, j + 1)
              /\ (c < e /\ j <= Len(channelQueues[e])) => pos(c, j) < pos(e, j)
        /\ \A c \in nonEmpty : pos(c, 1) <= Cardinality(nonEmpty)

C27_RoundRobinFlattening ==
    [][(booted /\ pg' # pg) =>
          /\ RoundRobin(pg.channelQueues, pg'.generationQueue)
          /\ pg'.totalVideos = Len(pg'.generationQueue)
          /\ \A c \in 1..Len(pg'.channelQueues) : pg'.channelQueues[c] = <<>>]_vars

\* C27 witness: a flat queue built from three sub-queues of different
\* lengths: its first three entries belong to three channels and the
\* sub-queues are drained.
C27_Witness ==
    /\ booted
    /\ Len(pg.channelQueues) = 3
    /\ \A c \in 1..3 : pg.channelQueues[c] = <<>>
    /\ Len(pg.generationQueue) >= 6
    /\ Cardinality({pg.generationQueue[p].channel : p \in 1..3}) = 3
    /\ pg.generationQueue[Len(pg.generationQueue)].channel
          = pg.generationQueue[Len(pg.generationQueue) - 1].channel

\* ------------------------------------------------------------------------
\* C28: a partial bundle is reaped before the transcoder is invoked on it.
\* At every spawn of the transcoder for a source item, the item's bundle
\* directory holds no file left by an earlier incomplete or failed attempt
\* (it is empty, or it holds a complete bundle); and reaping a partial
\* bundle removes its directory, so that the next completeness check finds
\* the bundle absent.
\* ------------------------------------------------------------------------
\* The runs whose loop made a spawn call in the step.
SpawnedIn(rs, rsNext) ==
    {r \in 1..Len(rsNext) : Len(rsNext[r].log) > (IF r <= Len(rs) THEN Len(rs[r].log) ELSE 0)}

NoLeftover(b) ==
    \/ b.files = {} /\ ~b.hasIndex /\ ~b.hasMetadata
    \/ IsComplete(b)

ReapLeavesAbsent(d, key) ==
    LET reaped == deletePartialGeneration(d, key)
    IN  /\ key \notin DOMAIN reaped
        /\ Bundle(reaped, key[1], key[2][2]) = NoDir
        /\ isAlreadyGenerated(reaped, key[2][2], key[1]) = [result |-> FALSE, disk |-> reaped]

C28_PartialReapedBeforeSpawn ==
    [][/\ \A r \in SpawnedIn(runs, runs') :
             LET item == runs'[r].log[Len(runs'[r].log)].item
             IN  NoLeftover(Bundle(disk', item.channel, item.filePath))
       /\ \A key \in DOMAIN disk : ~IsComplete(disk[key]) => ReapLeavesAbsent(disk, key)]_vars

\* ------------------------------------------------------------------------
\* C29: the compiled program contains segments of complete bundles only.
\* Every segment record generateMasterPlaylist produces for a channel of
\* the pool belongs to a bundle that satisfies every completeness clause
\* (index present with the end-of-list marker, every listed segment file
\* present, metadata present); a partial bundle, also one a transcoder is
\* still writing, contributes no segment.
\* ------------------------------------------------------------------------
\* The bundle keys of the segment records of a program.
BundlesOf(program) == {<<program[i].path[1], program[i].path[2]>> : i \in 1..Len(program)}

C29_ProgramOfCompleteBundlesOnly ==
    \A c \in 1..Len(pool) :
        \A key \in BundlesOf(generateMasterPlaylist(pool[c], disk)) :
            /\ key \in DOMAIN disk
            /\ IsComplete(disk[key])

\* ------------------------------------------------------------------------
\* C30: startGeneration is not reentrant.  A call made while isGenerating
\* is true returns at once: generationQueue, channelQueues, currentIndex,
\* totalVideos and isGenerating are what they were when it was called, and
\* no transcoder is spawned.  Checked on the call itself in every state
\* where a generation runs, and on the call reloadChannels makes.
\* ------------------------------------------------------------------------
\* The step is a reload (the watcher's poll saw a new modification time).
Reloaded == lastMtime' # lastMtime /\ booted

\* s is a prefix of t.
IsPrefix(s, t) == Len(s) <= Len(t) /\ \A i \in 1..Len(s) : t[i] = s[i]

C30_StartGenerationNotReentrant ==
    [][pg.isGenerating =>
          /\ \A spawnOk \in BOOLEAN :
                startGeneration(pg, disk, runs, spawnOk) = [pg |-> pg, disk |-> disk, runs |-> runs]
          /\ Reloaded =>
                /\ runs' = runs
                /\ pg'.isGenerating
                /\ pg'.generationQueue = <<>>
                /\ pg'.currentIndex = 0
                /\ pg'.totalVideos = 0
                /\ IsPrefix(pg.channelQueues, pg'.channelQueues)]_vars

\* C30 witness: a reload has queued a channel while a transcoder was
\* running: the sub-queue waits in channelQueues, the flat queue is the
\* reset one, and the only loop is the one that was running.
C30_Witness ==
    /\ booted
    /\ mtime > 0 /\ lastMtime = mtime
    /\ pg.isGenerating
    /\ Len(runs) = 1 /\ runs[1].status = "running"
    /\ Len(runs[1].log) = 1
    /\ pg.generationQueue = <<>>
    /\ \E c \in 1..Len(pg.channelQueues) : pg.channelQueues[c] # <<>>

\* ------------------------------------------------------------------------
\* C31: the scheduler's currentIndex grows monotonically.  Over any
\* execution, several generation runs and definitions reloads included, the
\* value of currentIndex exposed by getProgress never decreases from one
\* state to the next.
C31_CurrentIndexNeverDecreases ==
    [][ getProgress(pg').current >= getProgress(pg).current ]_vars

\* ------------------------------------------------------------------------
\* C32: the pair (started, epoch) of a channel is published atomically.  In
\* every state a request handler or the guide builder can read, each
\* channel of the pool has either started = false and epoch = null, or
\* started = true and an epoch; started = true with epoch = null is never
\* observable.  The epoch is the instant captured by start(): whenever the
\* pool is replaced, every channel of the new pool is started with the
\* clock value of that step as its epoch.
C32_StartedAndEpochPublishedTogether ==
    /\ [](\A i \in 1..Len(pool) :
             \/ ~pool[i].started /\ pool[i].startTime = NullTime
             \/ pool[i].started /\ pool[i].startTime # NullTime)
    /\ [][ pool' # pool
           => \A i \in 1..Len(pool') : pool'[i].started /\ pool'[i].startTime = now ]_vars

\* C32 witness: a reload has replaced the pool after the clock advanced; the
\* channels read by a handler are started with the instant of the reload.
C32_Witness ==
    /\ booted
    /\ mtime > 0 /\ lastMtime = mtime
    /\ Len(pool) >= 2
    /\ now > Boot
    /\ \A i \in 1..Len(pool) : pool[i].started /\ pool[i].startTime = now

\* ------------------------------------------------------------------------
\* C33: in the guide, isCurrent of an entry is decided against the instant
\* of the call itself: an entry pushed by getSchedule has isCurrent = true
\* exactly when startTime <= now < endTime, and an entry of the merged
\* schedule has isCurrent = true exactly when one of the entries of its run
\* holds now in that way.
C33_IsCurrentAgainstNow ==
    GuideAnswered =>
        /\ \A i \in 1..Len(synth.sorted) :
              synth.sorted[i].isCurrent
                 <=> (synth.sorted[i].startTime <= synth.at /\ synth.at < synth.sorted[i].endTime)
        /\ \A i \in 1..Len(synth.schedule) :
              synth.schedule[i].isCurrent
                 <=> \E k \in 1..Len(synth.sorted) :
                        /\ synth.sorted[k].startTime >= synth.schedule[i].startTime
                        /\ synth.sorted[k].endTime <= synth.schedule[i].endTime
                        /\ synth.sorted[k].startTime <= synth.at
                        /\ synth.at < synth.sorted[k].endTime

\* ------------------------------------------------------------------------
\* C34: every source item that queueChannel enqueues is eventually handed
\* to the transcoder.  Provided each transcoder process eventually exits,
\* an item that waits in a sub-queue of the scheduler or in the part of a
\* run's flat queue not yet reached is eventually passed to generateVideo,
\* also when the reload that enqueued it happened during a generation run.
\* ------------------------------------------------------------------------
\* The items queueChannel can enqueue for the channels of the definitions.
SourceItems ==
    {Item(f, slug) : f \in {"/a/1.mp4", "/b/1.mp4", "/b/2.mkv"}, slug \in {"one", "two"}}

\* The item waits: in a sub-queue, or ahead of the position of a run.
Enqueued(item) ==
    \/ \E c \in 1..Len(pg.channelQueues) :
          \E k \in 1..Len(pg.channelQueues[c]) : pg.channelQueues[c][k] = item
    \/ \E r \in 1..Len(runs) :
          \E k \in (runs[r].pos + 1)..Len(runs[r].queue) : runs[r].queue[k] = item

\* generateVideo has been called with the item (by any run).
HandedToTranscoder(item) ==
    \E r \in 1..Len(runs) : \E k \in 1..Len(runs[r].log) : runs[r].log[k].item = item

C34_EnqueuedEventuallyTranscoded ==
    \A item \in SourceItems : Enqueued(item) ~> HandedToTranscoder(item)

\* ------------------------------------------------------------------------
\* C35: a bundle directory is never reaped while the transcoder is writing
\* it.  No step removes the directory, or unlinks the index or a segment
\* file, of the bundle whose transcoder process is in flight; in particular
\* not a definitions reload that runs queueChannel during a generation run.
C35_NoReapOfBundleBeingWritten ==
    [][ \A key \in KeysWritten(runs) \cap DOMAIN disk :
           /\ key \in DOMAIN disk'
           /\ disk[key].files \subseteq disk'[key].files
           /\ disk[key].hasIndex => disk'[key].hasIndex ]_vars

\* ------------------------------------------------------------------------
\* C36: no source item is stranded between scheduler and synthesizer.
\* After queueChannel has run for the channels of the pool, every source
\* item of a channel's queue is either in the scheduler's queues or has a
\* bundle whose segments generateMasterPlaylist puts in the compiled
\* program; and no bundle is taken as already generated by the scheduler
\* while the synthesizer leaves it out.
\* ------------------------------------------------------------------------
\* The item is in a sub-queue or in the flat queue of the scheduler.
Pending(item) ==
    \/ \E c \in 1..Len(pg.channelQueues) :
          \E k \in 1..Len(pg.channelQueues[c]) : pg.channelQueues[c][k] = item
    \/ \E k \in 1..Len(pg.generationQueue) : pg.generationQueue[k] = item

\* The compiled program of the channel holds segments of the file's bundle.
InProgram(channel, filePath) ==
    BundleKey(channel.slug, filePath) \in BundlesOf(generateMasterPlaylist(channel, disk))

C36_NoItemStranded ==
    booted =>
        \A i \in 1..Len(pool) : \A q \in 1..Len(pool[i].queue) :
            /\ Pending(Item(pool[i].queue[q], pool[i].slug)) \/ InProgram(pool[i], pool[i].queue[q])
            /\ isAlreadyGenerated(disk, pool[i].queue[q], pool[i].slug).result
                  => InProgram(pool[i], pool[i].queue[q])

\* ------------------------------------------------------------------------
\* C37: sequence numbers identify segments consistently across refetches.
\* For a fixed compiled program of L segments, in every emitted manifest
\* (either revision) the segment at window position j (0-based) is the
\* program segment at index (mediaSequence + j) mod L; hence whenever the
\* same sequence number occurs in the manifests of two calls, both list the
\* same segment URL for it.
\* ------------------------------------------------------------------------
\* Every position of manifest m lists the record its sequence number names.
NumberedBy(m, p) ==
    LET first == SequenceOf(m)
        L == Len(p)
    IN  \A j \in 0..(Len(m) - 2) : UriAt(m, j + 1) = p[((first + j) % L) + 1].path

\* Manifests m and n list the same URL for every sequence number they share.
AgreeOnShared(m, n) ==
    LET firstM == SequenceOf(m)
        firstN == SequenceOf(n)
        lo == Max(firstM, firstN)
        hi == Min(firstM + Len(m) - 2, firstN + Len(n) - 2)
    IN  \A s \in lo..hi : UriAt(m, s - firstM + 1) = UriAt(n, s - firstN + 1)

C37_SequenceNumbersIdentifySegments ==
    /\ []((synth.called /\ ProgramPlays)
            => LET p == Program
               IN  NumberedBy(synth.text, p) /\ NumberedBy(synth.aired, p))
    /\ [][ (synth.called /\ synth'.called /\ ProgramPlays)
           => /\ AgreeOnShared(synth.text, synth'.text)
              /\ AgreeOnShared(synth.aired, synth'.aired) ]_vars

\* C37 witness: the long program asked one loop later at a position more
\* than windowBehind segments into the loop: the manifest starts at a
\* sequence number that is not a multiple of L, with the record it names.
C37_Witness ==
    /\ synth.called
    /\ ProgramPlays
    /\ Len(Program) > windowBehind
    /\ synth.loops >= 1
    /\ SequenceOf(synth.text) % Len(Program) # 0
    /\ UriAt(synth.text, 1) = Program[(SequenceOf(synth.text) % Len(Program)) + 1].path
    /\ SequenceOf(synth.aired) = synth.loops * Len(Program)
    /\ UriAt(synth.aired, 1) = Program[1].path

\* ------------------------------------------------------------------------
\* C38: the progress counters stay consistent.  In every reachable state,
\* also after a definitions reload during a generation run, getProgress
\* reports 0 <= current <= total and a percentComplete in 0..100.
C38_ProgressCountersConsistent ==
    /\ 0 <= getProgress(pg).current
    /\ getProgress(pg).current <= getProgress(pg).total
    /\ getProgress(pg).percentComplete \in 0..100

\* ------------------------------------------------------------------------
\* C39: at most one entry of a channel's guide is flagged isCurrent.  In
\* every schedule returned by getSchedule, after the merge pass, the number
\* of entries with isCurrent = true is 0 or 1.
\* ------------------------------------------------------------------------
\* The positions of the entries of a schedule flagged isCurrent.
CurrentEntries(schedule) == {i \in 1..Len(schedule) : schedule[i].isCurrent}

C39_AtMostOneCurrentEntry ==
    synth.called => Cardinality(CurrentEntries(synth.schedule)) <= 1

\* C39 witness: a guide with several entries of which exactly one is
\* flagged, a merged one whose flag comes from an entry inside its run, not
\* from the first entry of the run.
C39_Witness ==
    /\ GuideAnswered
    /\ Len(synth.schedule) >= 2
    /\ Len(synth.sorted) > Len(synth.schedule)
    /\ Cardinality(CurrentEntries(synth.schedule)) = 1
    /\ Cardinality(CurrentEntries(synth.sorted)) = 1
    /\ \E i \in CurrentEntries(synth.schedule) : \E k \in CurrentEntries(synth.sorted) :
          /\ synth.schedule[i].startTime < synth.sorted[k].startTime
          /\ synth.sorted[k].endTime <= synth.schedule[i].endTime

============================================================================
